---- MODULE Spec2Model ----
(***************************************************************************)
(* Verification model of manydns-rs: the RFC-sized value types of          *)
(* src/types.rs and the provider adapters (Namecheap, Hetzner, Cloudflare, *)
(* Tencent, DNSPod, Namecrane, Technitium) that implement the Provider /   *)
(* Zone / CreateRecord / DeleteRecord capability contract.                 *)
(*                                                                         *)
(* Byte slices are sequences of byte values and strings of the adapters   *)
(* are sequences of one-character strings.  Each group of                  *)
(* variables belongs to one specification; a specification keeps the       *)
(* other groups at their idle values.                                      *)
(***************************************************************************)
EXTENDS Integers, Sequences, FiniteSets, TLC

VARIABLES
    lblInput,   \* Label: the byte slice handed to the constructor
    lblOut,     \* Label: the constructed value ([tag |-> "Unset" | "None" | "Some"])
    lblOp,      \* Label: which public constructor produced lblOut
    dnInput,    \* DomainName: the dotted string handed to from_dotted
    dnOut,      \* DomainName: the constructed value
    dnOp,       \* DomainName: which constructor produced dnOut
    dnDotted    \* DomainName: the result of to_dotted on dnOut

VARIABLES
    tyIn,       \* Ttl, RecordType, RecordClass, RecordData: the input of the call
    tyOut,      \* ... the value the call returned
    tyOp        \* ... which function produced tyOut

VARIABLES
    apiClients,   \* the api::Client values behind the Arc handles (index = handle)
    providers,    \* NamecheapProvider / DnspodProvider instances the callers hold
    zones,        \* NamecheapZone / DnspodZone instances returned by get_zone
    ncHosts,      \* Namecheap backend: the host records of the registered domain
    ncNextHostId, \* Namecheap backend: the next HostId it hands out
    tasks,        \* per task: the trait call it is executing and its locals
    lastRequest,  \* the request most recently put on the wire
    ncCalls,      \* number of operations invoked so far
    ncCreated,    \* contents of the records whose create_record returned Ok
    ncDeleted,    \* contents of the records targeted by a delete_record
    ncAllOk       \* every call completed so far returned Ok

VARIABLES
    hzRRSets,   \* Hetzner backend: the RRSets of the zone
    hzZone,     \* the HetznerZone the caller holds, once get_zone returned one
    hzOut,      \* the last Hetzner call: operation, id argument, HTTP status, result
    hzCreated,  \* the Record of the last create_record, no mutation since
    hzCalls,    \* number of Hetzner operations invoked so far
    hzList      \* HetznerProvider::list_zones: the locals of the running call

VARIABLES
    cfRecords,  \* Cloudflare backend: the DNS records of the zone
    cfNextId,   \* Cloudflare backend: the number of the next record id
    cfOut,      \* the last Cloudflare call: operation, id argument, result
    cfCalls     \* number of Cloudflare operations invoked so far

VARIABLES
    craneRecords, \* Namecrane backend: the records of the domain of the API key
    craneOut,     \* the last Namecrane call: operation, id argument, result
    craneCalls    \* number of Namecrane operations invoked so far

labelVars == <<lblInput, lblOut, lblOp>>

nameVars == <<dnInput, dnOut, dnOp, dnDotted>>

tyVars == <<tyIn, tyOut, tyOp>>

ncVars == <<apiClients, providers, zones, ncHosts, ncNextHostId, tasks,
            lastRequest, ncCalls, ncCreated, ncDeleted, ncAllOk>>

hzVars == <<hzRRSets, hzZone, hzOut, hzCreated, hzCalls, hzList>>

cfVars == <<cfRecords, cfNextId, cfOut, cfCalls>>

craneVars == <<craneRecords, craneOut, craneCalls>>

vars == <<labelVars, nameVars, tyVars, ncVars, hzVars, cfVars, craneVars>>

(***************************************************************************)
(* Generic helpers                                                         *)
(***************************************************************************)
\* A sequence of n copies of x.
Repeat(x, n) == [i \in 1..n |-> x]

\* The elements of a sequence.
Range(seq) == {seq[i] : i \in DOMAIN seq}

(***************************************************************************)
(* src/types.rs: size limits                                               *)
(***************************************************************************)
MAX_LABEL_LEN == 63

MAX_DOMAIN_LEN == 255

DOT == 46

(***************************************************************************)
(* Bounds of the checked input space                                       *)
(***************************************************************************)
\* Longest byte slice handed to Label::new.
MaxBytesLen == 65

\* Most components in a dotted string handed to DomainName::from_dotted.
MaxLabels == 4

\* Component lengths the dotted inputs are built from (0 = empty component).
LabelLens == {0, 1, 2, 61, 63, 64}

\* Trailing dots appended to a dotted input.
MaxTrailingDots == 2

(***************************************************************************)
(* Label                                                                   *)
(***************************************************************************)
\* Byte i of the input slice of pattern p: constant, ascending (wrapping
\* through 0), and descending from 255.
PatternByte(p, i) ==
    CASE p = 0 -> 97
      [] p = 1 -> (i - 1) % 256
      [] OTHER -> 255 - ((i - 1) % 256)

ByteSlices == {[i \in 1..n |-> PatternByte(p, i)] : n \in 0..MaxBytesLen, p \in 0..2}

NoLabel == [tag |-> "None"]

\* Label { len, data }: data is the fixed array, padded with zeros.
LabelValue(len, data) == [tag |-> "Some", len |-> len, data |-> data]

\* The copy loop of Label::new: data[i] = bytes[i] for i < bytes.len().
LabelPad(bytes) ==
    [i \in 1..MAX_LABEL_LEN |-> IF i <= Len(bytes) THEN bytes[i] ELSE 0]

Label_new_rejects63(bytes) ==
    IF Len(bytes) = 0 \/ Len(bytes) >= MAX_LABEL_LEN
    THEN NoLabel
    ELSE LabelValue(Len(bytes) % 256, LabelPad(bytes))

Label_new(bytes) ==
    IF Len(bytes) = 0 \/ Len(bytes) > MAX_LABEL_LEN
    THEN NoLabel
    ELSE LabelValue(Len(bytes) % 256, LabelPad(bytes))

Label_from_str(str) == Label_new(str)

Label_as_bytes(l) == SubSeq(l.data, 1, l.len)

Label_len(l) == l.len

Label_is_empty(l) == l.len = 0

Label_default == LabelValue(0, Repeat(0, MAX_LABEL_LEN))

LabelIdle ==
    /\ lblInput = <<>>
    /\ lblOut = [tag |-> "Unset"]
    /\ lblOp = "idle"

LabelNew ==
    /\ lblOp = "none"
    /\ lblOut' = Label_new(lblInput)
    /\ lblOp' = "new"
    /\ UNCHANGED lblInput
    /\ UNCHANGED <<nameVars, tyVars, ncVars, hzVars, cfVars, craneVars>>

LabelFromStr ==
    /\ lblOp = "none"
    /\ lblOut' = Label_from_str(lblInput)
    /\ lblOp' = "from_str"
    /\ UNCHANGED lblInput
    /\ UNCHANGED <<nameVars, tyVars, ncVars, hzVars, cfVars, craneVars>>

LabelDefault ==
    /\ lblOp = "none"
    /\ lblOut' = Label_default
    /\ lblOp' = "default"
    /\ UNCHANGED lblInput
    /\ UNCHANGED <<nameVars, tyVars, ncVars, hzVars, cfVars, craneVars>>

(***************************************************************************)
(* DomainName                                                              *)
(***************************************************************************)
\* Component k of a dotted input is made of one repeated letter, a
\* different one per position.
LabelText(k, n) == Repeat(96 + k, n)

RECURSIVE JoinDots(_)
JoinDots(parts) ==
    IF parts = <<>> THEN <<>>
    ELSE IF Len(parts) = 1 THEN Head(parts)
    ELSE Head(parts) \o <<DOT>> \o JoinDots(Tail(parts))

LenLists == UNION {[1..n -> LabelLens] : n \in 0..MaxLabels}

DottedInputs ==
    {JoinDots([k \in 1..Len(ls) |-> LabelText(k, ls[k])]) \o Repeat(DOT, d) :
        ls \in LenLists, d \in 0..MaxTrailingDots}

\* str::trim_end_matches(c): removes every trailing occurrence of c.
trim_end_matches(str, c) ==
    LET keep == {i \in 1..Len(str) : str[i] # c}
        last == IF keep = {} THEN 0 ELSE CHOOSE i \in keep : \A j \in keep : j <= i
    IN  SubSeq(str, 1, last)

\* Position of the k-th occurrence of c in str; 0 before the first and
\* Len(str) + 1 after the last.
NthSep(str, c, k) ==
    LET seps == {i \in 1..Len(str) : str[i] = c}
    IN  IF k = 0 THEN 0
        ELSE IF k > Cardinality(seps) THEN Len(str) + 1
        ELSE CHOOSE i \in seps : Cardinality({j \in seps : j < i}) = k - 1

\* str::split(c): the pieces between occurrences of c; "" splits to [""].
split(str, c) ==
    LET n == Cardinality({i \in 1..Len(str) : str[i] = c})
    IN  [k \in 1..(n + 1) |->
            SubSeq(str, NthSep(str, c, k - 1) + 1, NthSep(str, c, k) - 1)]

NoName == [tag |-> "None"]

\* DomainName { len, data }: data is indexed from offset 0.
NameValue(len, data) == [tag |-> "Some", len |-> len, data |-> data]

ZeroData == [i \in 0..(MAX_DOMAIN_LEN - 1) |-> 0]

RECURSIVE PutLabels(_, _, _)
\* The for loop of from_dotted over the components still to be written:
\* returns the buffer and position, or failure.
PutLabels(labels, data, pos) ==
    IF labels = <<>> THEN [ok |-> TRUE, data |-> data, pos |-> pos]
    ELSE
        LET label_bytes == Head(labels)
            n == Len(label_bytes)
        IN  IF n = 0 \/ n > MAX_LABEL_LEN
            THEN [ok |-> FALSE, data |-> data, pos |-> pos]
            ELSE IF pos + 1 + n >= MAX_DOMAIN_LEN
            THEN [ok |-> FALSE, data |-> data, pos |-> pos]
            ELSE PutLabels(Tail(labels),
                           [i \in DOMAIN data |->
                               IF i = pos THEN n % 256
                               ELSE IF i > pos /\ i <= pos + n THEN label_bytes[i - pos]
                               ELSE data[i]],
                           pos + 1 + n)

from_dotted_rejects_255(str) ==
    IF str = <<>> THEN NameValue(1, ZeroData)
    ELSE
        LET r == PutLabels(split(trim_end_matches(str, DOT), DOT), ZeroData, 0)
        IN  IF ~r.ok \/ r.pos + 1 >= MAX_DOMAIN_LEN THEN NoName
            ELSE NameValue((r.pos + 1) % 256, [r.data EXCEPT ![r.pos] = 0])

\* from_dotted without the final pos += 1.
from_dotted_without_terminator(str) ==
    IF str = <<>> THEN NameValue(1, ZeroData)
    ELSE
        LET r == PutLabels(split(trim_end_matches(str, DOT), DOT), ZeroData, 0)
        IN  IF ~r.ok THEN NoName
            ELSE NameValue(r.pos % 256, [r.data EXCEPT ![r.pos] = 0])

from_dotted(str) ==
    IF str = <<>> THEN NameValue(1, ZeroData)
    ELSE
        LET r == PutLabels(split(trim_end_matches(str, DOT), DOT), ZeroData, 0)
        IN  IF ~r.ok THEN NoName
            ELSE NameValue((r.pos + 1) % 256, [r.data EXCEPT ![r.pos] = 0])

RECURSIVE ToDottedFrom(_, _, _)
\* The while loop of to_dotted.  The label bytes are always valid UTF-8
\* here: they are slices of a str cut at the ASCII dot.
ToDottedFrom(dn, pos, result) ==
    IF pos >= dn.len THEN result
    ELSE
        LET label_len == dn.data[pos]
        IN  IF label_len = 0 THEN result
            ELSE ToDottedFrom(dn, pos + 1 + label_len,
                    (IF result # <<>> THEN Append(result, DOT) ELSE result)
                        \o [i \in 1..label_len |-> dn.data[pos + i]])

to_dotted(dn) == ToDottedFrom(dn, 0, <<>>)

wire_len(dn) == dn.len

as_wire_bytes(dn) == [i \in 1..dn.len |-> dn.data[i - 1]]

is_root_when_empty(dn) == dn.len = 0

is_root(dn) == dn.len = 1 /\ dn.data[0] = 0

DomainName_default == NameValue(1, ZeroData)

NameIdle ==
    /\ dnInput = <<>>
    /\ dnOut = [tag |-> "Unset"]
    /\ dnOp = "idle"
    /\ dnDotted = <<>>

NameFromDotted ==
    /\ dnOp = "none"
    /\ dnOut' = from_dotted(dnInput)
    /\ dnOp' = "from_dotted"
    /\ UNCHANGED <<dnInput, dnDotted>>
    /\ UNCHANGED <<labelVars, tyVars, ncVars, hzVars, cfVars, craneVars>>

NameDefault ==
    /\ dnOp = "none"
    /\ dnOut' = DomainName_default
    /\ dnOp' = "default"
    /\ UNCHANGED <<dnInput, dnDotted>>
    /\ UNCHANGED <<labelVars, tyVars, ncVars, hzVars, cfVars, craneVars>>

NameToDotted ==
    /\ dnOp \in {"from_dotted", "default"}
    /\ dnOut.tag = "Some"
    /\ dnDotted' = to_dotted(dnOut)
    /\ dnOp' = IF dnOp = "default" THEN "default_dotted" ELSE "dotted"
    /\ UNCHANGED <<dnInput, dnOut>>
    /\ UNCHANGED <<labelVars, tyVars, ncVars, hzVars, cfVars, craneVars>>

(***************************************************************************)
(* Strings of the adapters: Rust's str operations                          *)
(***************************************************************************)
Digits == <<"0", "1", "2", "3", "4", "5", "6", "7", "8", "9">>

\* str::to_lowercase on the ASCII range
to_lowercase(str) ==
    LET UpperCase == <<"A", "B", "C", "D", "E", "F", "G", "H", "I", "J", "K", "L", "M", "N", "O", "P", "Q", "R", "S", "T", "U", "V", "W", "X", "Y", "Z">>
        LowerCase == <<"a", "b", "c", "d", "e", "f", "g", "h", "i", "j", "k", "l", "m", "n", "o", "p", "q", "r", "s", "t", "u", "v", "w", "x", "y", "z">>
        lower(c) == IF \E i \in 1..26 : UpperCase[i] = c
                    THEN LowerCase[CHOOSE i \in 1..26 : UpperCase[i] = c]
                    ELSE c
    IN  [i \in 1..Len(str) |-> lower(str[i])]

\* The value of a string of decimal digits.
RECURSIVE DigitsValue(_)
DigitsValue(str) ==
    IF str = <<>> THEN 0
    ELSE 10 * DigitsValue(SubSeq(str, 1, Len(str) - 1))
             + (CHOOSE i \in 1..10 : Digits[i] = str[Len(str)]) - 1

\* u64::to_string / u16::to_string
RECURSIVE to_string(_)
to_string(n) ==
    IF n < 10 THEN <<Digits[n + 1]>>
    ELSE to_string(n \div 10) \o <<Digits[(n % 10) + 1]>>

NoneValue == [tag |-> "None"]

SomeValue(v) == [tag |-> "Some", v |-> v]

\* str::parse::<u64>(): an optional '+' and then at least one decimal
\* digit; the literals of this model stay far below 2^64, so the overflow
\* failure cannot occur.
parse_u64(str) ==
    LET body == IF str # <<>> /\ str[1] = "+" THEN Tail(str) ELSE str
    IN  IF body = <<>> \/ \E i \in 1..Len(body) : body[i] \notin Range(Digits)
        THEN NoneValue
        ELSE SomeValue(DigitsValue(body))

U16_MAX == 65535

\* str::parse::<u16>()
parse_u16(str) ==
    IF parse_u64(str).tag = "Some" /\ parse_u64(str).v <= U16_MAX THEN parse_u64(str)
    ELSE NoneValue

\* str::split_whitespace restricted to the space character: the non-empty
\* pieces between spaces.
split_whitespace(str) == SelectSeq(split(str, " "), LAMBDA part : part # <<>>)

\* s.join(sep) of a vector of strings
RECURSIVE join(_, _)
join(parts, sep) ==
    IF parts = <<>> THEN <<>>
    ELSE IF Len(parts) = 1 THEN parts[1]
    ELSE parts[1] \o sep \o join(Tail(parts), sep)

\* format!("{}.{}", a, b)
dot_join(a, b) == a \o <<".">> \o b

(***************************************************************************)
(* Ttl                                                                     *)
(***************************************************************************)
\* A u32 as its two 16-bit halves: the arguments above 2^31 - 1, which are
\* the ones Ttl is about, are beyond the integers of the model checker.
u32(hi, lo) == [hi |-> hi, lo |-> lo]

\* a > b on u32
u32_gt(a, b) == a.hi > b.hi \/ (a.hi = b.hi /\ a.lo > b.lo)

\* pub const MAX_TTL: u32 = 2_147_483_647, that is 0x7FFF_FFFF
MAX_TTL == u32(32767, 65535)

\* The u32 arguments: around 0, around MAX_TTL and around u32::MAX.
U32Inputs ==
    {u32(hi, lo) : hi \in {0, 1, 32766, 32767, 32768, 32769, 65535},
                   lo \in {0, 1, 3600, 65534, 65535}}

\* struct Ttl(u32)
Ttl(seconds) == [secs |-> seconds]

Ttl_new_unclamped(seconds) == Ttl(seconds)

Ttl_new(seconds) ==
    IF u32_gt(seconds, MAX_TTL) THEN Ttl(MAX_TTL) ELSE Ttl(seconds)

Ttl_try_new_clamps(seconds) == SomeValue(Ttl_new(seconds))

Ttl_try_new(seconds) ==
    IF u32_gt(seconds, MAX_TTL) THEN NoneValue ELSE SomeValue(Ttl(seconds))

as_secs(ttl) == ttl.secs

\* impl From<u32> for Ttl
Ttl_from(secs) == Ttl_new(secs)

TypesIdle ==
    /\ tyIn = <<>>
    /\ tyOut = [tag |-> "Unset"]
    /\ tyOp = "idle"

TtlNew ==
    /\ tyOp = "none"
    /\ tyOut' = Ttl_new(tyIn)
    /\ tyOp' = "Ttl::new"
    /\ UNCHANGED tyIn
    /\ UNCHANGED <<labelVars, nameVars, ncVars, hzVars, cfVars, craneVars>>

TtlTryNew ==
    /\ tyOp = "none"
    /\ tyOut' = Ttl_try_new(tyIn)
    /\ tyOp' = "Ttl::try_new"
    /\ UNCHANGED tyIn
    /\ UNCHANGED <<labelVars, nameVars, ncVars, hzVars, cfVars, craneVars>>

TtlFrom ==
    /\ tyOp = "none"
    /\ tyOut' = Ttl_from(tyIn)
    /\ tyOp' = "Ttl::from"
    /\ UNCHANGED tyIn
    /\ UNCHANGED <<labelVars, nameVars, ncVars, hzVars, cfVars, craneVars>>

(***************************************************************************)
(* RecordType and RecordClass                                              *)
(***************************************************************************)
\* str::to_uppercase on the ASCII range
to_uppercase(str) ==
    LET UpperCase == <<"A", "B", "C", "D", "E", "F", "G", "H", "I", "J", "K", "L", "M", "N", "O", "P", "Q", "R", "S", "T", "U", "V", "W", "X", "Y", "Z">>
        LowerCase == <<"a", "b", "c", "d", "e", "f", "g", "h", "i", "j", "k", "l", "m", "n", "o", "p", "q", "r", "s", "t", "u", "v", "w", "x", "y", "z">>
        upper(c) == IF \E i \in 1..26 : LowerCase[i] = c
                    THEN UpperCase[CHOOSE i \in 1..26 : LowerCase[i] = c]
                    ELSE c
    IN  [i \in 1..Len(str) |-> upper(str[i])]

\* enum RecordType: a member is written as its identifier.
RecordType ==
    {"A", "NS", "CNAME", "SOA", "PTR", "HINFO", "MX", "TXT", "AAAA", "SRV",
     "DS", "DNSKEY", "CAA"}

\* from_u16 over the low byte of the code only.
RecordType_from_u8(value) ==
    CASE value = 1 -> SomeValue("A")
      [] value = 2 -> SomeValue("NS")
      [] value = 5 -> SomeValue("CNAME")
      [] value = 6 -> SomeValue("SOA")
      [] value = 12 -> SomeValue("PTR")
      [] value = 13 -> SomeValue("HINFO")
      [] value = 15 -> SomeValue("MX")
      [] value = 16 -> SomeValue("TXT")
      [] value = 28 -> SomeValue("AAAA")
      [] value = 33 -> SomeValue("SRV")
      [] value = 43 -> SomeValue("DS")
      [] value = 48 -> SomeValue("DNSKEY")
      [] OTHER -> NoneValue

RecordType_from_u16(value) ==
    CASE value = 1 -> SomeValue("A")
      [] value = 2 -> SomeValue("NS")
      [] value = 5 -> SomeValue("CNAME")
      [] value = 6 -> SomeValue("SOA")
      [] value = 12 -> SomeValue("PTR")
      [] value = 13 -> SomeValue("HINFO")
      [] value = 15 -> SomeValue("MX")
      [] value = 16 -> SomeValue("TXT")
      [] value = 28 -> SomeValue("AAAA")
      [] value = 33 -> SomeValue("SRV")
      [] value = 43 -> SomeValue("DS")
      [] value = 48 -> SomeValue("DNSKEY")
      [] value = 257 -> SomeValue("CAA")
      [] OTHER -> NoneValue

RecordType_from_str(s) ==
    LET upper == to_uppercase(s)
    IN  CASE upper = <<"A">> -> SomeValue("A")
          [] upper = <<"N", "S">> -> SomeValue("NS")
          [] upper = <<"C", "N", "A", "M", "E">> -> SomeValue("CNAME")
          [] upper = <<"S", "O", "A">> -> SomeValue("SOA")
          [] upper = <<"P", "T", "R">> -> SomeValue("PTR")
          [] upper = <<"H", "I", "N", "F", "O">> -> SomeValue("HINFO")
          [] upper = <<"M", "X">> -> SomeValue("MX")
          [] upper = <<"T", "X", "T">> -> SomeValue("TXT")
          [] upper = <<"A", "A", "A", "A">> -> SomeValue("AAAA")
          [] upper = <<"S", "R", "V">> -> SomeValue("SRV")
          [] upper = <<"D", "S">> -> SomeValue("DS")
          [] upper = <<"D", "N", "S", "K", "E", "Y">> -> SomeValue("DNSKEY")
          [] upper = <<"C", "A", "A">> -> SomeValue("CAA")
          [] OTHER -> NoneValue

\* *self as u16: the discriminants of the enum
RecordType_as_u16(t) ==
    CASE t = "A" -> 1
      [] t = "NS" -> 2
      [] t = "CNAME" -> 5
      [] t = "SOA" -> 6
      [] t = "PTR" -> 12
      [] t = "HINFO" -> 13
      [] t = "MX" -> 15
      [] t = "TXT" -> 16
      [] t = "AAAA" -> 28
      [] t = "SRV" -> 33
      [] t = "DS" -> 43
      [] t = "DNSKEY" -> 48
      [] t = "CAA" -> 257

\* as_str, which Display writes
RecordType_as_str(t) ==
    CASE t = "A" -> <<"A">>
      [] t = "NS" -> <<"N", "S">>
      [] t = "CNAME" -> <<"C", "N", "A", "M", "E">>
      [] t = "SOA" -> <<"S", "O", "A">>
      [] t = "PTR" -> <<"P", "T", "R">>
      [] t = "HINFO" -> <<"H", "I", "N", "F", "O">>
      [] t = "MX" -> <<"M", "X">>
      [] t = "TXT" -> <<"T", "X", "T">>
      [] t = "AAAA" -> <<"A", "A", "A", "A">>
      [] t = "SRV" -> <<"S", "R", "V">>
      [] t = "DS" -> <<"D", "S">>
      [] t = "DNSKEY" -> <<"D", "N", "S", "K", "E", "Y">>
      [] t = "CAA" -> <<"C", "A", "A">>

\* enum RecordClass
RecordClass == {"IN", "CS", "CH", "HS"}

RecordClass_from_u16(value) ==
    CASE value = 1 -> SomeValue("IN")
      [] value = 2 -> SomeValue("CS")
      [] value = 3 -> SomeValue("CH")
      [] value = 4 -> SomeValue("HS")
      [] OTHER -> NoneValue

RecordClass_as_u16(c) ==
    CASE c = "IN" -> 1
      [] c = "CS" -> 2
      [] c = "CH" -> 3
      [] c = "HS" -> 4

\* impl Display for RecordClass
RecordClass_to_string(c) ==
    CASE c = "IN" -> <<"I", "N">>
      [] c = "CS" -> <<"C", "S">>
      [] c = "CH" -> <<"C", "H">>
      [] c = "HS" -> <<"H", "S">>

\* The associated functions of RecordClass that take a &str and return a
\* RecordClass: impl RecordClass has from_u16 and as_u16 only, and the type
\* implements no FromStr.
RecordClass_name_parsers == {}

\* Largest u16 handed to from_u16 (besides u16::MAX).
MaxCode == 260

\* The arguments of the conversions: a member of either enum, a u16, or a
\* string (the mnemonics in upper, lower and mixed case, and strings that
\* are no mnemonic).
TypeInputs ==
    {[kind |-> "RecordType", member |-> t] : t \in RecordType}
    \cup {[kind |-> "RecordClass", member |-> c] : c \in RecordClass}
    \cup {[kind |-> "u16", value |-> n] : n \in 0..MaxCode \cup {U16_MAX}}
    \cup {[kind |-> "str", s |-> s] :
            s \in {RecordType_as_str(t) : t \in RecordType}
                  \cup {to_lowercase(RecordType_as_str(t)) : t \in RecordType}
                  \cup {RecordClass_to_string(c) : c \in RecordClass}
                  \cup {<<"A", "a", "a", "a">>, <<"c", "N", "a", "m", "e">>, <<"t", "X", "T">>, <<"i", "n">>, <<>>, <<"B">>, <<"A", " ">>, <<" ", "A">>,
                        <<"T", "Y", "P", "E", "1">>, <<"1">>, <<"A", "N", "Y">>, <<"A", "A", "A", "A", "A">>}}

\* The last value the calls so far returned.
Last(out) == out[Len(out)]

RecordTypeFromU16 ==
    /\ \/ tyOp = "none" /\ tyIn.kind = "u16"
          /\ tyOut' = <<RecordType_from_u16(tyIn.value)>>
       \/ tyOp = "RecordType::as_u16"
          /\ tyOut' = Append(tyOut, RecordType_from_u16(Last(tyOut)))
    /\ tyOp' = "RecordType::from_u16"
    /\ UNCHANGED tyIn
    /\ UNCHANGED <<labelVars, nameVars, ncVars, hzVars, cfVars, craneVars>>

RecordTypeAsU16 ==
    /\ \/ tyOp = "none" /\ tyIn.kind = "RecordType"
          /\ tyOut' = <<RecordType_as_u16(tyIn.member)>>
       \/ tyOp = "RecordType::from_u16" /\ Len(tyOut) = 1 /\ Last(tyOut).tag = "Some"
          /\ tyOut' = Append(tyOut, RecordType_as_u16(Last(tyOut).v))
    /\ tyOp' = "RecordType::as_u16"
    /\ UNCHANGED tyIn
    /\ UNCHANGED <<labelVars, nameVars, ncVars, hzVars, cfVars, craneVars>>

RecordTypeFromStr ==
    /\ \/ tyOp = "none" /\ tyIn.kind = "str"
          /\ tyOut' = <<RecordType_from_str(tyIn.s)>>
       \/ tyOp = "RecordType::as_str"
          /\ tyOut' = Append(tyOut, RecordType_from_str(Last(tyOut)))
    /\ tyOp' = "RecordType::from_str"
    /\ UNCHANGED tyIn
    /\ UNCHANGED <<labelVars, nameVars, ncVars, hzVars, cfVars, craneVars>>

RecordTypeAsStr ==
    /\ \/ tyOp = "none" /\ tyIn.kind = "RecordType"
          /\ tyOut' = <<RecordType_as_str(tyIn.member)>>
       \/ tyOp = "RecordType::from_str" /\ Len(tyOut) = 1 /\ Last(tyOut).tag = "Some"
          /\ tyOut' = Append(tyOut, RecordType_as_str(Last(tyOut).v))
    /\ tyOp' = "RecordType::as_str"
    /\ UNCHANGED tyIn
    /\ UNCHANGED <<labelVars, nameVars, ncVars, hzVars, cfVars, craneVars>>

RecordClassFromU16 ==
    /\ \/ tyOp = "none" /\ tyIn.kind = "u16"
          /\ tyOut' = <<RecordClass_from_u16(tyIn.value)>>
       \/ tyOp = "RecordClass::as_u16"
          /\ tyOut' = Append(tyOut, RecordClass_from_u16(Last(tyOut)))
    /\ tyOp' = "RecordClass::from_u16"
    /\ UNCHANGED tyIn
    /\ UNCHANGED <<labelVars, nameVars, ncVars, hzVars, cfVars, craneVars>>

RecordClassAsU16 ==
    /\ \/ tyOp = "none" /\ tyIn.kind = "RecordClass"
          /\ tyOut' = <<RecordClass_as_u16(tyIn.member)>>
       \/ tyOp = "RecordClass::from_u16" /\ Len(tyOut) = 1 /\ Last(tyOut).tag = "Some"
          /\ tyOut' = Append(tyOut, RecordClass_as_u16(Last(tyOut).v))
    /\ tyOp' = "RecordClass::as_u16"
    /\ UNCHANGED tyIn
    /\ UNCHANGED <<labelVars, nameVars, ncVars, hzVars, cfVars, craneVars>>

RecordClassToString ==
    /\ \/ tyOp = "none" /\ tyIn.kind = "RecordClass"
          /\ tyOut' = <<RecordClass_to_string(tyIn.member)>>
       \/ tyOp = "RecordClass::from_u16" /\ Len(tyOut) = 1 /\ Last(tyOut).tag = "Some"
          /\ tyOut' = Append(tyOut, RecordClass_to_string(Last(tyOut).v))
    /\ tyOp' = "RecordClass::to_string"
    /\ UNCHANGED tyIn
    /\ UNCHANGED <<labelVars, nameVars, ncVars, hzVars, cfVars, craneVars>>

(***************************************************************************)
(* RecordData (crate root): the tagged value model of a record payload     *)
(***************************************************************************)
RD_A(ip) == [variant |-> "A", ip |-> ip]

RD_AAAA(ip) == [variant |-> "AAAA", ip |-> ip]

RD_CNAME(target) == [variant |-> "CNAME", value |-> target]

RD_NS(target) == [variant |-> "NS", value |-> target]

RD_TXT(text) == [variant |-> "TXT", value |-> text]

RD_MX(priority, mail_server) ==
    [variant |-> "MX", priority |-> priority, mail_server |-> mail_server]

RD_SRV(priority, weight, port, target) ==
    [variant |-> "SRV", priority |-> priority, weight |-> weight,
     port |-> port, target |-> target]

RD_Other(typ, value) == [variant |-> "Other", typ |-> typ, value |-> value]

\* Ipv4Addr::from_str: four decimal octets of one to three digits, no
\* leading zero, each at most 255.
parse_octet(str) ==
    IF Len(str) = 0 \/ Len(str) > 3 THEN NoneValue
    ELSE IF \E i \in 1..Len(str) : str[i] \notin Range(Digits) THEN NoneValue
    ELSE IF Len(str) > 1 /\ str[1] = "0" THEN NoneValue
    ELSE IF DigitsValue(str) > 255 THEN NoneValue
    ELSE SomeValue(DigitsValue(str))

parse_ipv4(str) ==
    LET parts == split(str, ".")
    IN  IF Len(parts) # 4 THEN NoneValue
        ELSE IF \E i \in 1..4 : parse_octet(parts[i]).tag = "None" THEN NoneValue
        ELSE SomeValue([i \in 1..4 |-> parse_octet(parts[i]).v])

RECURSIVE HexValue(_)
\* The value of a string of hexadecimal digits.
HexValue(str) ==
    LET HexDigits == <<"0", "1", "2", "3", "4", "5", "6", "7", "8", "9", "a", "b", "c", "d", "e", "f">>
    IN  IF str = <<>> THEN 0
        ELSE HexValue(SubSeq(str, 1, Len(str) - 1)) * 16
             + (CHOOSE d \in 0..15 :
                   HexDigits[d + 1] = to_lowercase(<<str[Len(str)]>>)[1])

\* Ipv6Addr::from_str: eight groups of one to four hexadecimal digits
\* separated by ':', where one "::" stands for one or more zero groups and
\* the last two groups may be written as a dotted IPv4 address (not before
\* the "::").  The address is the sequence of its eight 16-bit groups.
parse_ipv6(str) ==
    LET HexChars == Range(<<"0", "1", "2", "3", "4", "5", "6", "7", "8", "9", "a", "b", "c", "d", "e", "f", "A", "B", "C", "D", "E", "F">>)
        is_group(g) == Len(g) >= 1 /\ Len(g) <= 4 /\ \A i \in 1..Len(g) : g[i] \in HexChars
        pieces(part) == IF part = <<>> THEN <<>> ELSE split(part, ":")
        read_groups(gs, ipv4_allowed) ==
            LET v4 == IF gs = <<>> \/ ~ipv4_allowed THEN NoneValue
                      ELSE parse_ipv4(gs[Len(gs)])
                plain == IF v4.tag = "Some" THEN SubSeq(gs, 1, Len(gs) - 1) ELSE gs
            IN  IF \E i \in 1..Len(plain) : ~is_group(plain[i]) THEN NoneValue
                ELSE SomeValue([i \in 1..Len(plain) |-> HexValue(plain[i])]
                               \o (IF v4.tag = "Some"
                                   THEN <<v4.v[1] * 256 + v4.v[2], v4.v[3] * 256 + v4.v[4]>>
                                   ELSE <<>>))
        colons == {i \in 1..(Len(str) - 1) : str[i] = ":" /\ str[i + 1] = ":"}
    IN  IF colons = {} THEN
            LET all == read_groups(pieces(str), TRUE)
            IN  IF all.tag = "Some" /\ Len(all.v) = 8 THEN all ELSE NoneValue
        ELSE IF Cardinality(colons) > 1 THEN NoneValue
        ELSE
            LET at == CHOOSE i \in colons : TRUE
                head == read_groups(pieces(SubSeq(str, 1, at - 1)), FALSE)
                tail == read_groups(pieces(SubSeq(str, at + 2, Len(str))), TRUE)
            IN  IF head.tag = "None" \/ tail.tag = "None" THEN NoneValue
                ELSE IF Len(head.v) + Len(tail.v) > 7 THEN NoneValue
                ELSE SomeValue(head.v \o Repeat(0, 8 - Len(head.v) - Len(tail.v)) \o tail.v)

\* Display of Ipv4Addr
ipv4_to_string(ip) == join([i \in 1..4 |-> to_string(ip[i])], <<".">>)

\* from_raw matching the type without regard to case.
from_raw_any_case(typ, value) ==
    CASE to_uppercase(typ) = <<"A">> ->
            IF parse_ipv4(value).tag = "Some" THEN RD_A(parse_ipv4(value).v)
            ELSE RD_Other(typ, value)
      [] to_uppercase(typ) = <<"A", "A", "A", "A">> ->
            IF parse_ipv6(value).tag = "Some" THEN RD_AAAA(parse_ipv6(value).v)
            ELSE RD_Other(typ, value)
      [] to_uppercase(typ) = <<"C", "N", "A", "M", "E">> -> RD_CNAME(value)
      [] to_uppercase(typ) = <<"N", "S">> -> RD_NS(value)
      [] to_uppercase(typ) = <<"T", "X", "T">> -> RD_TXT(value)
      [] to_uppercase(typ) = <<"M", "X">> ->
            LET parts == split_whitespace(value)
            IN  IF Len(parts) = 2 /\ parse_u16(parts[1]).tag = "Some"
                THEN RD_MX(parse_u16(parts[1]).v, parts[2])
                ELSE RD_Other(typ, value)
      [] to_uppercase(typ) = <<"S", "R", "V">> ->
            LET parts == split_whitespace(value)
            IN  IF /\ Len(parts) = 4
                   /\ \A i \in 1..3 : parse_u16(parts[i]).tag = "Some"
                THEN RD_SRV(parse_u16(parts[1]).v,
                            parse_u16(parts[2]).v,
                            parse_u16(parts[3]).v, parts[4])
                ELSE RD_Other(typ, value)
      [] OTHER -> RD_Other(typ, value)

\* from_raw keeping MX with a defaulted priority.
from_raw_mx_defaulted(typ, value) ==
    CASE typ = <<"A">> ->
            IF parse_ipv4(value).tag = "Some" THEN RD_A(parse_ipv4(value).v)
            ELSE RD_Other(typ, value)
      [] typ = <<"A", "A", "A", "A">> ->
            IF parse_ipv6(value).tag = "Some" THEN RD_AAAA(parse_ipv6(value).v)
            ELSE RD_Other(typ, value)
      [] typ = <<"C", "N", "A", "M", "E">> -> RD_CNAME(value)
      [] typ = <<"N", "S">> -> RD_NS(value)
      [] typ = <<"T", "X", "T">> -> RD_TXT(value)
      [] typ = <<"M", "X">> ->
            LET parts == split_whitespace(value)
            IN  IF Len(parts) = 2 /\ parse_u16(parts[1]).tag = "Some"
                THEN RD_MX(parse_u16(parts[1]).v, parts[2])
                ELSE IF parts # <<>> THEN RD_MX(0, parts[Len(parts)])
                ELSE RD_Other(typ, value)
      [] typ = <<"S", "R", "V">> ->
            LET parts == split_whitespace(value)
            IN  IF /\ Len(parts) = 4
                   /\ \A i \in 1..3 : parse_u16(parts[i]).tag = "Some"
                THEN RD_SRV(parse_u16(parts[1]).v,
                            parse_u16(parts[2]).v,
                            parse_u16(parts[3]).v, parts[4])
                ELSE RD_Other(typ, value)
      [] OTHER -> RD_Other(typ, value)

\* RecordData::from_raw
from_raw(typ, value) ==
    CASE typ = <<"A">> ->
            IF parse_ipv4(value).tag = "Some" THEN RD_A(parse_ipv4(value).v)
            ELSE RD_Other(typ, value)
      [] typ = <<"A", "A", "A", "A">> ->
            IF parse_ipv6(value).tag = "Some" THEN RD_AAAA(parse_ipv6(value).v)
            ELSE RD_Other(typ, value)
      [] typ = <<"C", "N", "A", "M", "E">> -> RD_CNAME(value)
      [] typ = <<"N", "S">> -> RD_NS(value)
      [] typ = <<"T", "X", "T">> -> RD_TXT(value)
      [] typ = <<"M", "X">> ->
            LET parts == split_whitespace(value)
            IN  IF Len(parts) = 2 /\ parse_u16(parts[1]).tag = "Some"
                THEN RD_MX(parse_u16(parts[1]).v, parts[2])
                ELSE RD_Other(typ, value)
      [] typ = <<"S", "R", "V">> ->
            LET parts == split_whitespace(value)
            IN  IF /\ Len(parts) = 4
                   /\ \A i \in 1..3 : parse_u16(parts[i]).tag = "Some"
                THEN RD_SRV(parse_u16(parts[1]).v,
                            parse_u16(parts[2]).v,
                            parse_u16(parts[3]).v, parts[4])
                ELSE RD_Other(typ, value)
      [] OTHER -> RD_Other(typ, value)

\* RecordData::get_type
get_type(data) ==
    CASE data.variant = "A" -> <<"A">>
      [] data.variant = "AAAA" -> <<"A", "A", "A", "A">>
      [] data.variant = "CNAME" -> <<"C", "N", "A", "M", "E">>
      [] data.variant = "NS" -> <<"N", "S">>
      [] data.variant = "TXT" -> <<"T", "X", "T">>
      [] data.variant = "MX" -> <<"M", "X">>
      [] data.variant = "SRV" -> <<"S", "R", "V">>
      [] OTHER -> data.typ

\* Display of Ipv6Addr: an IPv4-mapped address renders its last two groups
\* as a dotted quad; otherwise the first longest run of two or more zero
\* groups is written "::" and each group is lower-case hexadecimal without
\* leading zeros.
RECURSIVE to_hex(_)
to_hex(n) ==
    LET HexDigits == <<"0", "1", "2", "3", "4", "5", "6", "7", "8", "9", "a", "b", "c", "d", "e", "f">>
    IN  IF n < 16 THEN <<HexDigits[n + 1]>>
        ELSE to_hex(n \div 16) \o <<HexDigits[(n % 16) + 1]>>

ipv6_to_string(ip) ==
    LET run(i) == IF ip[i] # 0 THEN 0
                  ELSE CHOOSE n \in 1..(9 - i) :
                          /\ \A j \in i..(i + n - 1) : ip[j] = 0
                          /\ (i + n = 9 \/ ip[i + n] # 0)
        longest == CHOOSE i \in 1..8 :
                      /\ \A j \in 1..8 : run(j) <= run(i)
                      /\ \A j \in 1..(i - 1) : run(j) < run(i)
        fmt_subslice(groups) == join([i \in 1..Len(groups) |-> to_hex(groups[i])], <<":">>)
    IN  IF (\A i \in 1..5 : ip[i] = 0) /\ ip[6] = 65535
        THEN <<":", ":", "f", "f", "f", "f", ":">> \o ipv4_to_string(<<ip[7] \div 256, ip[7] % 256,
                                             ip[8] \div 256, ip[8] % 256>>)
        ELSE IF run(longest) > 1
        THEN fmt_subslice(SubSeq(ip, 1, longest - 1)) \o <<":", ":">>
                \o fmt_subslice(SubSeq(ip, longest + run(longest), 8))
        ELSE fmt_subslice(ip)

\* get_api_value as it would be if it rendered every payload as get_value
\* does.
get_api_value_like_get_value(data) ==
    CASE data.variant = "A" -> ipv4_to_string(data.ip)
      [] data.variant = "AAAA" -> ipv6_to_string(data.ip)
      [] data.variant = "MX" ->
            to_string(data.priority) \o <<" ">> \o data.mail_server
      [] data.variant = "SRV" ->
            to_string(data.priority) \o <<" ">> \o to_string(data.weight) \o <<" ">>
                \o to_string(data.port) \o <<" ">> \o data.target
      [] OTHER -> data.value

\* RecordData::get_value
get_value(data) ==
    CASE data.variant = "A" -> ipv4_to_string(data.ip)
      [] data.variant = "AAAA" -> ipv6_to_string(data.ip)
      [] data.variant = "MX" ->
            to_string(data.priority) \o <<" ">> \o data.mail_server
      [] data.variant = "SRV" ->
            to_string(data.priority) \o <<" ">> \o to_string(data.weight) \o <<" ">>
                \o to_string(data.port) \o <<" ">> \o data.target
      [] OTHER -> data.value

\* RecordData::get_api_value
get_api_value(data) ==
    IF data.variant = "MX" THEN data.mail_server ELSE get_value(data)

\* The (type, value) pairs handed to from_raw: well-formed and malformed
\* values of every known type, under known, differently cased and unknown
\* type strings; and RecordData values built directly, one per variant.
RecordDataInputs ==
    {[kind |-> "raw", typ |-> t, value |-> v] :
        t \in {<<"A">>, <<"A", "A", "A", "A">>, <<"C", "N", "A", "M", "E">>, <<"N", "S">>, <<"T", "X", "T">>, <<"M", "X">>, <<"S", "R", "V">>,
               <<"a">>, <<"m", "x">>, <<"T", "x", "t">>, <<"C", "A", "A">>, <<>>, <<"T", "Y", "P", "E", "1">>},
        v \in {<<"1", "9", "2", ".", "0", ".", "2", ".", "1">>, <<"1", "9", "2", ".", "0", ".", "2">>, <<"2", "5", "6", ".", "0", ".", "0", ".", "1">>, <<"0", "1", ".", "2", ".", "3", ".", "4">>, <<"1", ".", "2", ".", "3", ".", "4", ".", "5">>,
               <<"2", "0", "0", "1", ":", "d", "b", "8", ":", ":", "1">>, <<":", ":">>, <<":", ":", "f", "f", "f", "f", ":", "1", "9", "2", ".", "0", ".", "2", ".", "1">>, <<"1", ":", "2", ":", "3", ":", "4", ":", "5", ":", "6", ":", "7", ":", "8">>,
               <<"1", ":", "2", ":", "3", ":", "4", ":", "5", ":", "6", ":", "7">>, <<"1", "2", "3", "4", "5", ":", ":">>, <<":", ":", ":">>, <<"1", ":", ":", "2", ":", ":", "3">>, <<"1", ":", "2", ":", "3", ":", "4", ":", "5", ":", "6", ":", "7", ":", ":", "8">>,
               <<"1", "0", " ", "m", "a", "i", "l", ".", "e", "x", "a", "m", "p", "l", "e", ".", "c", "o", "m">>, <<"m", "a", "i", "l", ".", "e", "x", "a", "m", "p", "l", "e", ".", "c", "o", "m">>, <<"7", "0", "0", "0", "0", " ", "m", "a", "i", "l", ".", "e", "x", "a", "m", "p", "l", "e", ".", "c", "o", "m">>,
               <<"1", "0", " ", "a", " ", "b">>, <<" ", "1", "0", " ", " ", "m", "a", "i", "l", ".", "e", "x", "a", "m", "p", "l", "e", ".", "c", "o", "m", " ">>, <<"x", " ", "m", "a", "i", "l", ".", "e", "x", "a", "m", "p", "l", "e", ".", "c", "o", "m">>,
               <<"1", "0", " ", "5", " ", "5", "0", "6", "0", " ", "s", "i", "p", ".", "e", "x", "a", "m", "p", "l", "e", ".", "c", "o", "m">>, <<"1", "0", " ", "5", " ", "s", "i", "p", ".", "e", "x", "a", "m", "p", "l", "e", ".", "c", "o", "m">>,
               <<"1", "0", " ", "x", " ", "5", "0", "6", "0", " ", "s", "i", "p", ".", "e", "x", "a", "m", "p", "l", "e", ".", "c", "o", "m">>, <<"1", "0", " ", "5", " ", "6", "5", "5", "3", "6", " ", "s", "i", "p", ".", "e", "x", "a", "m", "p", "l", "e", ".", "c", "o", "m">>,
               <<>>, <<"\"", "v", "\"">>, <<"e", "x", "a", "m", "p", "l", "e", ".", "c", "o", "m", ".">>}}
    \cup {[kind |-> "data", data |-> d] :
            d \in {RD_A(<<192, 0, 2, 1>>), RD_AAAA(<<0, 0, 0, 0, 0, 0, 0, 1>>),
                   RD_CNAME(<<"a", ".", "e", "x", "a", "m", "p", "l", "e", ".", "c", "o", "m">>), RD_NS(<<"n", "s", "1", ".", "e", "x", "a", "m", "p", "l", "e", ".", "c", "o", "m">>), RD_TXT(<<>>),
                   RD_MX(10, <<"m", "a", "i", "l", ".", "e", "x", "a", "m", "p", "l", "e", ".", "c", "o", "m">>), RD_MX(0, <<"m", "x", ".", "e", "x", "a", "m", "p", "l", "e", ".", "c", "o", "m", ".">>),
                   RD_MX(65535, <<"m">>), RD_SRV(10, 5, 5060, <<"s", "i", "p", ".", "e", "x", "a", "m", "p", "l", "e", ".", "c", "o", "m">>),
                   RD_Other(<<"C", "A", "A">>, <<"0">>), RD_Other(<<"A">>, <<"x">>)}}

RecordDataFromRaw ==
    /\ tyOp = "none"
    /\ tyIn.kind = "raw"
    /\ tyOut' = <<from_raw(tyIn.typ, tyIn.value)>>
    /\ tyOp' = "RecordData::from_raw"
    /\ UNCHANGED tyIn
    /\ UNCHANGED <<labelVars, nameVars, ncVars, hzVars, cfVars, craneVars>>

RecordDataGetType ==
    /\ \/ tyOp = "none" /\ tyIn.kind = "data"
          /\ tyOut' = <<get_type(tyIn.data)>>
       \/ tyOp = "RecordData::from_raw"
          /\ tyOut' = Append(tyOut, get_type(Last(tyOut)))
    /\ tyOp' = "RecordData::get_type"
    /\ UNCHANGED tyIn
    /\ UNCHANGED <<labelVars, nameVars, ncVars, hzVars, cfVars, craneVars>>

RecordDataGetValue ==
    /\ \/ tyOp = "none" /\ tyIn.kind = "data"
          /\ tyOut' = <<get_value(tyIn.data)>>
       \/ tyOp = "RecordData::from_raw"
          /\ tyOut' = Append(tyOut, get_value(Last(tyOut)))
    /\ tyOp' = "RecordData::get_value"
    /\ UNCHANGED tyIn
    /\ UNCHANGED <<labelVars, nameVars, ncVars, hzVars, cfVars, craneVars>>

RecordDataGetApiValue ==
    /\ \/ tyOp = "none" /\ tyIn.kind = "data"
          /\ tyOut' = <<get_api_value(tyIn.data)>>
       \/ tyOp = "RecordData::from_raw"
          /\ tyOut' = Append(tyOut, get_api_value(Last(tyOut)))
    /\ tyOp' = "RecordData::get_api_value"
    /\ UNCHANGED tyIn
    /\ UNCHANGED <<labelVars, nameVars, ncVars, hzVars, cfVars, craneVars>>

\* Record { id, host, data, ttl }
Record(id, host, data, ttl) == [id |-> id, host |-> host, data |-> data, ttl |-> ttl]

Ok(v) == [tag |-> "Ok", v |-> v]

\* Err(variant) of a trait error enum; custom is the adapter's native error
\* carried by the Custom variant.
Err(variant, custom) == [tag |-> "Err", err |-> variant, custom |-> custom]

NoCustom == [kind |-> "None"]

(***************************************************************************)
(* Namecheap: src/namecheap/api.rs                                         *)
(***************************************************************************)
NumTasks == 2

MaxCalls == 3

\* NamecheapError
NcError(kind, detail) == [kind |-> kind, detail |-> detail]

\* ClientConfig::api_url
api_url(config) ==
    IF config.environment = "Production"
    THEN "https://api.namecheap.com/xml.response"
    ELSE "https://api.sandbox.namecheap.com/xml.response"

\* The query parameters Client::request puts on the wire (before URL
\* encoding); hosts are the numbered HostName/RecordType/Address/TTL/MXPref
\* parameters of setHosts.
request(client, command, sld, tld, hosts) ==
    [http_client |-> client.http_client,
     url         |-> api_url(client.config),
     ApiUser     |-> client.config.api_user,
     ApiKey      |-> client.config.api_key,
     UserName    |-> client.config.username,
     ClientIp    |-> client.config.client_ip,
     Command     |-> command,
     SLD         |-> sld,
     TLD         |-> tld,
     hosts       |-> hosts]

\* Client::check_api_error on the parsed <ApiResponse Status> / <Error Number>
check_api_error(resp) ==
    IF resp.Status = "ERROR" THEN
        IF resp.Number = "" THEN
            Err("Native", NcError("Parse", "Failed to parse error response"))
        ELSE IF resp.Number \in {"1010102", "1011102", "1030408"} THEN
            Err("Native", NcError("Unauthorized", ""))
        ELSE IF resp.Number \in {"2019166", "2016166"} THEN
            Err("Native", NcError("DomainNotFound", ""))
        ELSE IF resp.Number = "500000" THEN
            Err("Native", NcError("RateLimited", ""))
        ELSE Err("Native", NcError("Api", resp.Number))
    ELSE Ok(<<>>)

\* HostRecord
HostRecord(host_id, name, record_type, address, mx_pref, ttl) ==
    [host_id |-> host_id, name |-> name, record_type |-> record_type,
     address |-> address, mx_pref |-> mx_pref, ttl |-> ttl]

\* parse_host_records: one HostRecord per <host> element
parse_host_records(hosts) ==
    [i \in 1..Len(hosts) |->
        HostRecord(hosts[i].HostId, hosts[i].Name, hosts[i].Type, hosts[i].Address,
                   parse_u16(hosts[i].MXPref),
                   IF parse_u64(hosts[i].TTL).tag = "Some"
                   THEN parse_u64(hosts[i].TTL).v ELSE 1800)]

\* Client::get_hosts, given the backend's response
get_hosts(resp) ==
    IF check_api_error(resp).tag = "Err" THEN check_api_error(resp)
    ELSE IF resp.IsUsingOurDNS # "true" THEN Err("Native", NcError("Api", "2030288"))
    ELSE Ok(parse_host_records(resp.hosts))

\* set_hosts as it would be if it sent no MXPref parameter.
set_hosts_params_without_mx_pref(records) ==
    [i \in 1..Len(records) |->
        [HostName   |-> records[i].name,
         RecordType |-> records[i].record_type,
         Address    |-> records[i].address,
         TTL        |-> to_string(records[i].ttl),
         MXPref     |-> NoneValue]]

\* Client::set_hosts: the numbered parameters of one record
set_hosts_params(records) ==
    [i \in 1..Len(records) |->
        [HostName   |-> records[i].name,
         RecordType |-> records[i].record_type,
         Address    |-> records[i].address,
         TTL        |-> to_string(records[i].ttl),
         MXPref     |-> IF records[i].mx_pref.tag = "Some"
                        THEN SomeValue(to_string(records[i].mx_pref.v))
                        ELSE NoneValue]]

\* Client::set_hosts, given the backend's response
set_hosts(resp) == check_api_error(resp)

(***************************************************************************)
(* The Namecheap service: getHosts returns the host list of a domain,      *)
(* setHosts replaces it as a whole and hands out fresh HostIds.            *)
(***************************************************************************)
RegisteredDomains == {<<<<"e", "x">>, <<"c", "o", "m">>>>, <<<<"e", "x">>, <<"c", "o", ".", "u", "k">>>>}

NcFaults == {"none", "1011102", "2019166"}

NcRespond(req, fault, hosts) ==
    LET error(number) == [Status |-> "ERROR", Number |-> number,
                          IsUsingOurDNS |-> "true", hosts |-> <<>>]
    IN
    IF fault # "none" THEN error(fault)
    ELSE IF <<req.SLD, req.TLD>> \notin RegisteredDomains THEN error("2019166")
    ELSE [Status |-> "OK", Number |-> "", IsUsingOurDNS |-> "true",
          hosts |-> IF req.Command = "namecheap.domains.dns.getHosts"
                    THEN hosts[<<req.SLD, req.TLD>>] ELSE <<>>]

\* The host lists after the service has handled req.
NcHostsAfter(req, fault, hosts, nextId) ==
    LET stored == [i \in 1..Len(req.hosts) |->
                      [HostId  |-> to_string(nextId + i - 1),
                       Name    |-> req.hosts[i].HostName,
                       Type    |-> req.hosts[i].RecordType,
                       Address |-> req.hosts[i].Address,
                       TTL     |-> req.hosts[i].TTL,
                       MXPref  |-> IF req.hosts[i].MXPref.tag = "Some"
                                   THEN req.hosts[i].MXPref.v ELSE <<"1", "0">>]]
    IN  IF /\ fault = "none"
           /\ <<req.SLD, req.TLD>> \in RegisteredDomains
           /\ req.Command = "namecheap.domains.dns.setHosts"
        THEN [hosts EXCEPT ![<<req.SLD, req.TLD>>] = stored]
        ELSE hosts

NcNextIdAfter(req, fault, nextId) ==
    IF /\ fault = "none"
       /\ <<req.SLD, req.TLD>> \in RegisteredDomains
       /\ req.Command = "namecheap.domains.dns.setHosts"
    THEN nextId + Len(req.hosts)
    ELSE nextId

(***************************************************************************)
(* Namecheap: src/namecheap/mod.rs                                         *)
(***************************************************************************)
two_part_tlds ==
    <<
      <<"c", "o", ".", "u", "k">>, <<"o", "r", "g", ".", "u", "k">>, <<"m", "e", ".", "u", "k">>, <<"n", "e", "t", ".", "u", "k">>,
      <<"a", "c", ".", "u", "k">>, <<"g", "o", "v", ".", "u", "k">>, <<"l", "t", "d", ".", "u", "k">>, <<"p", "l", "c", ".", "u", "k">>,
      <<"c", "o", "m", ".", "a", "u">>, <<"n", "e", "t", ".", "a", "u">>, <<"o", "r", "g", ".", "a", "u">>, <<"e", "d", "u", ".", "a", "u">>,
      <<"g", "o", "v", ".", "a", "u">>, <<"a", "s", "n", ".", "a", "u">>, <<"i", "d", ".", "a", "u">>, <<"c", "o", ".", "n", "z">>,
      <<"n", "e", "t", ".", "n", "z">>, <<"o", "r", "g", ".", "n", "z">>, <<"g", "o", "v", "t", ".", "n", "z">>, <<"a", "c", ".", "n", "z">>,
      <<"s", "c", "h", "o", "o", "l", ".", "n", "z">>, <<"g", "e", "e", "k", ".", "n", "z">>, <<"c", "o", ".", "j", "p">>, <<"n", "e", ".", "j", "p">>,
      <<"o", "r", ".", "j", "p">>, <<"a", "c", ".", "j", "p">>, <<"g", "o", ".", "j", "p">>, <<"c", "o", "m", ".", "c", "n">>,
      <<"n", "e", "t", ".", "c", "n">>, <<"o", "r", "g", ".", "c", "n">>, <<"g", "o", "v", ".", "c", "n">>, <<"e", "d", "u", ".", "c", "n">>,
      <<"c", "o", "m", ".", "b", "r">>, <<"n", "e", "t", ".", "b", "r">>, <<"o", "r", "g", ".", "b", "r">>, <<"g", "o", "v", ".", "b", "r">>,
      <<"e", "d", "u", ".", "b", "r">>, <<"c", "o", ".", "i", "n">>, <<"n", "e", "t", ".", "i", "n">>, <<"o", "r", "g", ".", "i", "n">>,
      <<"g", "o", "v", ".", "i", "n">>, <<"a", "c", ".", "i", "n">>
    >>

\* split_domain
split_domain(domain) ==
    LET parts == split(trim_end_matches(domain, "."), ".")
        n == Len(parts)
    IN  IF n < 2 THEN NoneValue
        ELSE IF /\ n >= 3
                /\ \E i \in DOMAIN two_part_tlds :
                        two_part_tlds[i] = dot_join(parts[n - 1], parts[n])
        THEN SomeValue([sld |-> join(SubSeq(parts, 1, n - 2), <<".">>),
                        tld |-> dot_join(parts[n - 1], parts[n])])
        ELSE SomeValue([sld |-> join(SubSeq(parts, 1, n - 1), <<".">>),
                        tld |-> parts[n]])

\* NamecheapProvider { api_client } and DnspodProvider { api_client }
Provider(adapter, api_client) == [adapter |-> adapter, api_client |-> api_client]

\* NamecheapZone { api_client, domain, sld, tld }
NamecheapZone(api_client, domain, sld, tld) ==
    [adapter |-> "namecheap", api_client |-> api_client, domain |-> domain,
     sld |-> sld, tld |-> tld, id |-> domain]

\* host_record_to_record
host_record_to_record(hr, domain) ==
    Record(hr.host_id,
           IF hr.name = <<"@">> THEN domain ELSE dot_join(hr.name, domain),
           IF hr.record_type = <<"M", "X">>
           THEN RD_MX(IF hr.mx_pref.tag = "Some" THEN hr.mx_pref.v ELSE 10, hr.address)
           ELSE from_raw(hr.record_type, hr.address),
           hr.ttl)

\* fetch_records as it would be if the shared client remembered the zone
\* opened last and addressed its requests to that zone.
fetch_records_request_of_last_zone(client, zone) ==
    request(client, "namecheap.domains.dns.getHosts",
            IF zones = <<>> THEN zone.sld ELSE zones[Len(zones)].sld,
            IF zones = <<>> THEN zone.tld ELSE zones[Len(zones)].tld, <<>>)

\* NamecheapZone::fetch_records: the getHosts request of a zone
fetch_records_request(client, zone) ==
    request(client, "namecheap.domains.dns.getHosts", zone.sld, zone.tld, <<>>)

\* NamecheapZone::save_records: the setHosts request of a zone
save_records_request(client, zone, records) ==
    request(client, "namecheap.domains.dns.setHosts", zone.sld, zone.tld,
            set_hosts_params(records))

\* The HostRecord create_record appends to the fetched list; its ttl is
\* ttl.clamp(60, 60000).
new_record(host, data, ttl) ==
    HostRecord(<<>>, host, get_type(data), get_api_value(data),
               IF data.variant = "MX" THEN SomeValue(data.priority) ELSE NoneValue,
               IF ttl < 60 THEN 60 ELSE IF ttl > 60000 THEN 60000 ELSE ttl)

\* Iterator::rfind over the refetched list
find_created_record(updated, host, data) ==
    LET hits == {i \in 1..Len(updated) :
                    /\ updated[i].name = host
                    /\ updated[i].record_type = get_type(data)
                    /\ to_lowercase(trim_end_matches(updated[i].address, "."))
                         = to_lowercase(trim_end_matches(get_api_value(data), "."))}
    IN  IF hits = {} THEN NoneValue
        ELSE SomeValue(updated[CHOOSE i \in hits : \A j \in hits : j <= i])

\* Iterator::find(|hr| hr.host_id == record_id)
find_by_host_id(records, record_id) ==
    LET hits == {i \in 1..Len(records) : records[i].host_id = record_id}
    IN  IF hits = {} THEN NoneValue
        ELSE SomeValue(records[CHOOSE i \in hits : \A j \in hits : i <= j])

\* delete_record's filter(|r| r.host_id != record_id) as it would be with
\* Vec::swap_remove, which fills the gap with the last element.
remaining_records_swap_remove(records, record_id) ==
    LET hits == {i \in 1..Len(records) : records[i].host_id = record_id}
        first == CHOOSE i \in hits : \A j \in hits : i <= j
    IN  IF hits = {} THEN records
        ELSE [i \in 1..(Len(records) - 1) |->
                 IF i = first THEN records[Len(records)] ELSE records[i]]

\* delete_record: records.into_iter().filter(|r| r.host_id != record_id)
remaining_records(records, record_id) ==
    SelectSeq(records, LAMBDA r : r.host_id # record_id)

\* delete_record treating an id that no host has as already deleted.
record_was_missing_ignored(original_count, remaining) == FALSE

\* delete_record: remaining.len() == original_count
record_was_missing(original_count, remaining) == Len(remaining) = original_count

\* get_zone's map_err
get_zone_error(e) ==
    IF e.kind = "DomainNotFound" THEN Err("NotFound", NoCustom)
    ELSE IF e.kind = "Unauthorized" THEN Err("Unauthorized", NoCustom)
    ELSE Err("Custom", e)

\* The map_err of list_records, of get_record and of the save_records
\* calls in create_record and delete_record.
unauthorized_or_custom(e) ==
    IF e.kind = "Unauthorized" THEN Err("Unauthorized", NoCustom)
    ELSE Err("Custom", e)

(***************************************************************************)
(* DNSPod: the parts of src/dnspod that construct and clone a provider     *)
(***************************************************************************)
\* api::Client::get_domain / get_domain_by_name: the Domain.Info form
dnspod_domain_info_request(client, zone_id) ==
    [http_client |-> client.http_client,
     login_token |-> client.config.login_token,
     path        |-> "Domain.Info",
     key         |-> IF \E i \in 1..Len(zone_id) : zone_id[i] = "."
                     THEN "domain" ELSE "domain_id",
     value       |-> zone_id]

\* DnspodZone { api_client, repr }
DnspodZone(api_client, repr) ==
    [adapter |-> "dnspod", api_client |-> api_client, domain |-> repr.name,
     sld |-> <<>>, tld |-> <<>>, id |-> repr.id]

\* DnspodProvider::get_zone on a decoded DomainInfoResponse: a body
\* without the mandatory domain field fails to deserialize.
dnspod_get_zone(api_client, resp) ==
    IF resp.domain.tag = "None" THEN Err("Custom", [kind |-> "Request", detail |-> "decode"])
    ELSE IF resp.code # "1" THEN
        IF resp.code = "-1" THEN Err("Unauthorized", NoCustom)
        ELSE IF resp.code \in {"6", "8"} THEN Err("NotFound", NoCustom)
        ELSE Err("Custom", [kind |-> "Api", detail |-> resp.code])
    ELSE Ok(DnspodZone(api_client, resp.domain.v))

DpResponses(req) ==
    LET DpDomain == [id |-> <<"7">>, name |-> <<"e", "x", ".", "c", "o", "m">>]
    IN
    {[code |-> c, domain |-> d] :
        c \in {"-1"}, d \in {NoneValue, SomeValue(DpDomain)}}
    \cup
    {IF \/ (req.key = "domain" /\ req.value = DpDomain.name)
        \/ (req.key = "domain_id" /\ req.value = DpDomain.id)
     THEN [code |-> "1", domain |-> SomeValue(DpDomain)]
     ELSE [code |-> "6", domain |-> NoneValue]}

(***************************************************************************)
(* Tasks calling the Namecheap and DNSPod adapters concurrently.  A call   *)
(* is suspended at each request it awaits; the step of a call runs from    *)
(* one response to the next request, which the service handles at once.    *)
(***************************************************************************)
NoRequest == [task |-> 0, inst |-> <<>>, req |-> <<>>]

IdleTask ==
    [pc |-> "idle", op |-> "none", inst |-> 0, host |-> <<>>, data |-> [variant |-> "None"],
     ttl |-> 0, record_id |-> <<>>, records |-> <<>>, result |-> NoneValue,
     failure |-> "none", targets |-> {}, fetched |-> <<>>, sent |-> <<>>]

\* A call that has returned.
Done(op, inst, result, failure) ==
    [IdleTask EXCEPT !.pc = "done", !.op = op, !.inst = inst, !.result = result,
                     !.failure = failure]

\* What the response told the call: one of the vendor's authentication
\* failure codes, one of its domain-not-found codes, or neither.
NcFailure(resp) ==
    IF resp.Status = "ERROR" /\ resp.Number \in {"1010102", "1011102", "1030408"}
    THEN "auth"
    ELSE IF resp.Status = "ERROR" /\ resp.Number \in {"2019166", "2016166"}
    THEN "not_found"
    ELSE "none"

\* The ids a caller may ask for: those of the stored hosts and one that no
\* host has.
NcRecordIds ==
    UNION {{ncHosts[d][i].HostId : i \in 1..Len(ncHosts[d])} : d \in RegisteredDomains}
        \cup {<<"0">>}

ContentKey(zone, name, record_type, address) ==
    <<zone.sld, zone.tld, name, record_type, address>>

NcBackendContents ==
    UNION {{<<d[1], d[2], ncHosts[d][i].Name, ncHosts[d][i].Type, ncHosts[d][i].Address>> :
                i \in 1..Len(ncHosts[d])} : d \in RegisteredDomains}

NamecheapIdle ==
    /\ apiClients = <<>>
    /\ providers = <<>>
    /\ zones = <<>>
    /\ ncHosts = <<>>
    /\ ncNextHostId = 0
    /\ tasks = <<>>
    /\ lastRequest = NoRequest
    /\ ncCalls = 0
    /\ ncCreated = {}
    /\ ncDeleted = {}
    /\ ncAllOk = TRUE

NamecheapProviderClone(p) ==
    /\ ncCalls < MaxCalls
    /\ providers[p].adapter = "namecheap"
    /\ providers' = Append(providers, Provider(providers[p].adapter, providers[p].api_client))
    /\ ncCalls' = ncCalls + 1
    /\ UNCHANGED <<apiClients, zones, ncHosts, ncNextHostId, tasks, lastRequest,
                   ncCreated, ncDeleted, ncAllOk>>
    /\ UNCHANGED <<labelVars, nameVars, tyVars, hzVars, cfVars, craneVars>>

\* impl Clone for DnspodProvider: a new Arc around a clone of the Client,
\* whose reqwest client is a handle to the same connection pool.
DnspodProviderClone(p) ==
    /\ ncCalls < MaxCalls
    /\ providers[p].adapter = "dnspod"
    /\ apiClients' = Append(apiClients, apiClients[providers[p].api_client])
    /\ providers' = Append(providers, Provider("dnspod", Len(apiClients) + 1))
    /\ ncCalls' = ncCalls + 1
    /\ UNCHANGED <<zones, ncHosts, ncNextHostId, tasks, lastRequest,
                   ncCreated, ncDeleted, ncAllOk>>
    /\ UNCHANGED <<labelVars, nameVars, tyVars, hzVars, cfVars, craneVars>>

\* DnspodProvider::get_zone
DnspodGetZone(t, p, zone_id) ==
    /\ tasks[t].pc \in {"idle", "done"}
    /\ ncCalls < MaxCalls
    /\ providers[p].adapter = "dnspod"
    /\ LET req == dnspod_domain_info_request(apiClients[providers[p].api_client], zone_id)
       IN  \E resp \in DpResponses(req) :
              LET result == dnspod_get_zone(providers[p].api_client, resp)
              IN  /\ lastRequest' = [task |-> t, inst |-> providers[p], req |-> req]
                  /\ tasks' = [tasks EXCEPT ![t] =
                                  Done("DnspodProvider::get_zone", p, result,
                                       IF resp.code = "-1" THEN "auth" ELSE "none")]
                  /\ zones' = IF result.tag = "Ok" THEN Append(zones, result.v) ELSE zones
    /\ ncCalls' = ncCalls + 1
    /\ UNCHANGED <<apiClients, providers, ncHosts, ncNextHostId,
                   ncCreated, ncDeleted, ncAllOk>>
    /\ UNCHANGED <<labelVars, nameVars, tyVars, hzVars, cfVars, craneVars>>

\* NamecheapProvider::get_zone
NamecheapGetZone(t, p, zone_id, fault) ==
    /\ tasks[t].pc \in {"idle", "done"}
    /\ ncCalls < MaxCalls
    /\ providers[p].adapter = "namecheap"
    /\ IF split_domain(zone_id).tag = "None" THEN
          /\ tasks' = [tasks EXCEPT ![t] =
                          Done("NamecheapProvider::get_zone", p,
                               Err("Custom", NcError("Parse", "Invalid domain format")),
                               "none")]
          /\ UNCHANGED <<zones, lastRequest>>
       ELSE
          LET zone == NamecheapZone(providers[p].api_client, zone_id,
                                    split_domain(zone_id).v.sld,
                                    split_domain(zone_id).v.tld)
              req == fetch_records_request(apiClients[zone.api_client], zone)
              resp == NcRespond(req, fault, ncHosts)
              fetched == get_hosts(resp)
          IN  /\ lastRequest' = [task |-> t, inst |-> zone, req |-> req]
              /\ tasks' = [tasks EXCEPT ![t] =
                              Done("NamecheapProvider::get_zone", p,
                                   IF fetched.tag = "Err" THEN get_zone_error(fetched.custom)
                                   ELSE Ok(zone),
                                   NcFailure(resp))]
              /\ zones' = IF fetched.tag = "Ok" THEN Append(zones, zone) ELSE zones
    /\ ncCalls' = ncCalls + 1
    /\ UNCHANGED <<apiClients, providers, ncHosts, ncNextHostId,
                   ncCreated, ncDeleted, ncAllOk>>
    /\ UNCHANGED <<labelVars, nameVars, tyVars, hzVars, cfVars, craneVars>>

\* NamecheapZone::list_records
NamecheapListRecords(t, z, fault) ==
    /\ tasks[t].pc \in {"idle", "done"}
    /\ ncCalls < MaxCalls
    /\ zones[z].adapter = "namecheap"
    /\ LET req == fetch_records_request(apiClients[zones[z].api_client], zones[z])
           resp == NcRespond(req, fault, ncHosts)
           fetched == get_hosts(resp)
       IN  /\ lastRequest' = [task |-> t, inst |-> zones[z], req |-> req]
           /\ tasks' = [tasks EXCEPT ![t] =
                 Done("NamecheapZone::list_records", z,
                      IF fetched.tag = "Err" THEN unauthorized_or_custom(fetched.custom)
                      ELSE Ok([i \in 1..Len(fetched.v) |->
                                  host_record_to_record(fetched.v[i], zones[z].domain)]),
                      NcFailure(resp))]
    /\ ncCalls' = ncCalls + 1
    /\ UNCHANGED <<apiClients, providers, zones, ncHosts, ncNextHostId,
                   ncCreated, ncDeleted, ncAllOk>>
    /\ UNCHANGED <<labelVars, nameVars, tyVars, hzVars, cfVars, craneVars>>

\* NamecheapZone::get_record
NamecheapGetRecord(t, z, record_id, fault) ==
    /\ tasks[t].pc \in {"idle", "done"}
    /\ ncCalls < MaxCalls
    /\ zones[z].adapter = "namecheap"
    /\ LET req == fetch_records_request(apiClients[zones[z].api_client], zones[z])
           resp == NcRespond(req, fault, ncHosts)
           fetched == get_hosts(resp)
       IN  /\ lastRequest' = [task |-> t, inst |-> zones[z], req |-> req]
           /\ tasks' = [tasks EXCEPT ![t] =
                 Done("NamecheapZone::get_record", z,
                      IF fetched.tag = "Err" THEN unauthorized_or_custom(fetched.custom)
                      ELSE IF find_by_host_id(fetched.v, record_id).tag = "None"
                      THEN Err("NotFound", NoCustom)
                      ELSE Ok(host_record_to_record(
                                  find_by_host_id(fetched.v, record_id).v,
                                  zones[z].domain)),
                      NcFailure(resp))]
    /\ ncCalls' = ncCalls + 1
    /\ UNCHANGED <<apiClients, providers, zones, ncHosts, ncNextHostId,
                   ncCreated, ncDeleted, ncAllOk>>
    /\ UNCHANGED <<labelVars, nameVars, tyVars, hzVars, cfVars, craneVars>>

\* NamecheapZone::create_record up to its first fetch_records().await
NamecheapCreateFetch(t, z, args, fault) ==
    /\ tasks[t].pc \in {"idle", "done"}
    /\ ncCalls < MaxCalls
    /\ zones[z].adapter = "namecheap"
    /\ LET req == fetch_records_request(apiClients[zones[z].api_client], zones[z])
           resp == NcRespond(req, fault, ncHosts)
           fetched == get_hosts(resp)
       IN  /\ lastRequest' = [task |-> t, inst |-> zones[z], req |-> req]
           /\ IF fetched.tag = "Err" THEN
                 /\ tasks' = [tasks EXCEPT ![t] =
                       [Done("NamecheapZone::create_record", z, Err("Custom", fetched.custom),
                             NcFailure(resp))
                           EXCEPT !.data = args.data, !.sent = <<req.Command>>]]
                 /\ ncAllOk' = FALSE
              ELSE
                 /\ tasks' = [tasks EXCEPT ![t] =
                       [IdleTask EXCEPT !.pc = "fetched", !.op = "NamecheapZone::create_record",
                                        !.inst = z, !.host = args.host,
                                        !.data = args.data, !.ttl = args.ttl,
                                        !.records = fetched.v,
                                        !.fetched = fetched.v,
                                        !.sent = <<req.Command>>]]
                 /\ UNCHANGED ncAllOk
    /\ ncCalls' = ncCalls + 1
    /\ UNCHANGED <<apiClients, providers, zones, ncHosts, ncNextHostId,
                   ncCreated, ncDeleted>>
    /\ UNCHANGED <<labelVars, nameVars, tyVars, hzVars, cfVars, craneVars>>

\* create_record from the fetched list to save_records().await
NamecheapCreateSave(t, fault) ==
    /\ tasks[t].pc = "fetched"
    /\ tasks[t].op = "NamecheapZone::create_record"
    /\ LET zone == zones[tasks[t].inst]
           records == Append(tasks[t].records,
                             new_record(tasks[t].host, tasks[t].data, tasks[t].ttl))
           req == save_records_request(apiClients[zone.api_client], zone, records)
           resp == NcRespond(req, fault, ncHosts)
           saved == set_hosts(resp)
       IN  /\ lastRequest' = [task |-> t, inst |-> zone, req |-> req]
           /\ ncHosts' = NcHostsAfter(req, fault, ncHosts, ncNextHostId)
           /\ ncNextHostId' = NcNextIdAfter(req, fault, ncNextHostId)
           /\ IF saved.tag = "Err" THEN
                 /\ tasks' = [tasks EXCEPT ![t] =
                       [Done("NamecheapZone::create_record", tasks[t].inst,
                             unauthorized_or_custom(saved.custom), NcFailure(resp))
                           EXCEPT !.data = tasks[t].data,
                                  !.sent = Append(tasks[t].sent, req.Command)]]
                 /\ ncAllOk' = FALSE
              ELSE
                 /\ tasks' = [tasks EXCEPT ![t].pc = "saved", ![t].records = records,
                                           ![t].sent = Append(tasks[t].sent, req.Command)]
                 /\ UNCHANGED ncAllOk
    /\ UNCHANGED <<apiClients, providers, zones, ncCalls, ncCreated, ncDeleted>>
    /\ UNCHANGED <<labelVars, nameVars, tyVars, hzVars, cfVars, craneVars>>

\* create_record from the second fetch_records().await to its return
NamecheapCreateRefetch(t, fault) ==
    /\ tasks[t].pc = "saved"
    /\ tasks[t].op = "NamecheapZone::create_record"
    /\ LET zone == zones[tasks[t].inst]
           req == fetch_records_request(apiClients[zone.api_client], zone)
           resp == NcRespond(req, fault, ncHosts)
           updated == get_hosts(resp)
           found == find_created_record(updated.v, tasks[t].host, tasks[t].data)
           result ==
               IF updated.tag = "Err" THEN Err("Custom", updated.custom)
               ELSE IF found.tag = "None"
               THEN Err("Custom", NcError("Parse", "Failed to find created record"))
               ELSE Ok(host_record_to_record(found.v, zone.domain))
       IN  /\ lastRequest' = [task |-> t, inst |-> zone, req |-> req]
           /\ tasks' = [tasks EXCEPT ![t] =
                 [Done("NamecheapZone::create_record", tasks[t].inst, result,
                       NcFailure(resp))
                     EXCEPT !.data = tasks[t].data, !.host = tasks[t].host,
                            !.ttl = tasks[t].ttl,
                            !.sent = Append(tasks[t].sent, req.Command)]]
           /\ ncAllOk' = (ncAllOk /\ result.tag = "Ok")
           /\ ncCreated' = IF result.tag = "Ok"
                           THEN ncCreated \cup
                                {ContentKey(zone, tasks[t].host, get_type(tasks[t].data),
                                            get_api_value(tasks[t].data))}
                           ELSE ncCreated
    /\ UNCHANGED <<apiClients, providers, zones, ncHosts, ncNextHostId, ncCalls,
                   ncDeleted>>
    /\ UNCHANGED <<labelVars, nameVars, tyVars, hzVars, cfVars, craneVars>>

\* NamecheapZone::delete_record up to save_records().await, or to its
\* return when the fetch fails or no host has the id
NamecheapDeleteFetch(t, z, record_id, fault) ==
    /\ tasks[t].pc \in {"idle", "done"}
    /\ ncCalls < MaxCalls
    /\ zones[z].adapter = "namecheap"
    /\ LET req == fetch_records_request(apiClients[zones[z].api_client], zones[z])
           resp == NcRespond(req, fault, ncHosts)
           fetched == get_hosts(resp)
           remaining == remaining_records(fetched.v, record_id)
       IN  /\ lastRequest' = [task |-> t, inst |-> zones[z], req |-> req]
           /\ IF fetched.tag = "Err" THEN
                 /\ tasks' = [tasks EXCEPT ![t] =
                       [Done("NamecheapZone::delete_record", z, Err("Custom", fetched.custom),
                             NcFailure(resp))
                           EXCEPT !.record_id = record_id, !.sent = <<req.Command>>]]
                 /\ ncAllOk' = FALSE
              ELSE IF record_was_missing(Len(fetched.v), remaining) THEN
                 /\ tasks' = [tasks EXCEPT ![t] =
                       [Done("NamecheapZone::delete_record", z, Err("NotFound", NoCustom),
                             "none")
                           EXCEPT !.record_id = record_id, !.fetched = fetched.v,
                                  !.sent = <<req.Command>>]]
                 /\ ncAllOk' = FALSE
              ELSE
                 /\ tasks' = [tasks EXCEPT ![t] =
                       [IdleTask EXCEPT !.pc = "fetched", !.op = "NamecheapZone::delete_record",
                                        !.inst = z, !.record_id = record_id,
                                        !.records = remaining,
                                        !.fetched = fetched.v,
                                        !.sent = <<req.Command>>,
                                        !.targets =
                                            {ContentKey(zones[z], fetched.v[i].name,
                                                        fetched.v[i].record_type,
                                                        fetched.v[i].address) :
                                                i \in {j \in 1..Len(fetched.v) :
                                                          fetched.v[j].host_id = record_id}}]]
                 /\ UNCHANGED ncAllOk
    /\ ncCalls' = ncCalls + 1
    /\ UNCHANGED <<apiClients, providers, zones, ncHosts, ncNextHostId,
                   ncCreated, ncDeleted>>
    /\ UNCHANGED <<labelVars, nameVars, tyVars, hzVars, cfVars, craneVars>>

\* delete_record from save_records().await to its return
NamecheapDeleteSave(t, fault) ==
    /\ tasks[t].pc = "fetched"
    /\ tasks[t].op = "NamecheapZone::delete_record"
    /\ LET zone == zones[tasks[t].inst]
           req == save_records_request(apiClients[zone.api_client], zone, tasks[t].records)
           resp == NcRespond(req, fault, ncHosts)
           saved == set_hosts(resp)
           result == IF saved.tag = "Err" THEN unauthorized_or_custom(saved.custom)
                     ELSE Ok(<<>>)
       IN  /\ lastRequest' = [task |-> t, inst |-> zone, req |-> req]
           /\ ncHosts' = NcHostsAfter(req, fault, ncHosts, ncNextHostId)
           /\ ncNextHostId' = NcNextIdAfter(req, fault, ncNextHostId)
           /\ tasks' = [tasks EXCEPT ![t] =
                 [Done("NamecheapZone::delete_record", tasks[t].inst, result, NcFailure(resp))
                     EXCEPT !.records = tasks[t].records,
                            !.record_id = tasks[t].record_id,
                            !.fetched = tasks[t].fetched,
                            !.sent = Append(tasks[t].sent, req.Command)]]
           /\ ncAllOk' = (ncAllOk /\ result.tag = "Ok")
           /\ ncDeleted' = IF result.tag = "Ok" THEN ncDeleted \cup tasks[t].targets
                           ELSE ncDeleted
    /\ UNCHANGED <<apiClients, providers, zones, ncCalls, ncCreated>>
    /\ UNCHANGED <<labelVars, nameVars, tyVars, hzVars, cfVars, craneVars>>

(***************************************************************************)
(* Hetzner: src/hetzner/api.rs and src/hetzner/mod.rs                      *)
(***************************************************************************)
MaxHzCalls == 4

\* splitn as it would be if it split at every separator, like str.split.
split_at_every(n, str, c) == split(str, c)

\* str.splitn(n, c)
RECURSIVE splitn(_, _, _)
splitn(n, str, c) ==
    IF n = 1 \/ \A k \in 1..Len(str) : str[k] # c THEN <<str>>
    ELSE LET i == CHOOSE k \in 1..Len(str) :
                      str[k] = c /\ \A j \in 1..(k - 1) : str[j] # c
         IN  <<SubSeq(str, 1, i - 1)>> \o splitn(n - 1, SubSeq(str, i + 1, Len(str)), c)

hetzner_SUPPORTED_RECORD_TYPES ==
    {<<"A">>, <<"A", "A", "A", "A">>, <<"N", "S">>, <<"M", "X">>, <<"C", "N", "A", "M", "E">>, <<"R", "P">>, <<"T", "X", "T">>, <<"S", "O", "A">>, <<"H", "I", "N", "F", "O">>, <<"S", "R", "V">>,
     <<"T", "L", "S", "A">>, <<"D", "S">>, <<"C", "A", "A">>, <<"P", "T", "R">>, <<"H", "T", "T", "P", "S">>, <<"S", "V", "C", "B">>}

\* A request of hetzner::api::Client: the method that built it and the
\* parts of its URL and JSON body.
hetzner_request(method, zone_id_or_name, rr_name, rr_type, records, ttl) ==
    [method |-> method, zone_id_or_name |-> zone_id_or_name, rr_name |-> rr_name,
     rr_type |-> rr_type, records |-> records, ttl |-> ttl]

\* .send().await?.json().await of the Client methods: the body is decoded
\* whatever the HTTP status of the response is, and a body that is not of
\* the expected type is a decode error.
hetzner_json(resp, body_type) ==
    IF resp.body.type = body_type THEN Ok(resp.body)
    ELSE Err("reqwest", [kind |-> "Decode", is_status |-> FALSE, status |-> NoneValue])

\* The map_err closures of hetzner/mod.rs: a status error whose status the
\* operation names becomes the named variant, every other error is Custom.
hetzner_map_err(err, named) ==
    IF err.is_status /\ err.status.v \in DOMAIN named
    THEN Err(named[err.status.v], NoCustom)
    ELSE Err("Custom", err)

\* HetznerZone::from_api
from_api(api_client, zone) ==
    [api_client |-> api_client, repr |-> zone, zone_id_str |-> to_string(zone.id)]

\* format!("{}/{}/{}", name, typ, value)
hetzner_record_id(name, typ, value) == name \o <<"/">> \o typ \o <<"/">> \o value

\* The records list_records pushes for the RRSets of one response.
RECURSIVE rrsets_to_records(_, _)
rrsets_to_records(rrsets, zone) ==
    IF rrsets = <<>> THEN <<>>
    ELSE LET rrset == Head(rrsets)
             ttl == IF rrset.ttl.tag = "Some" THEN rrset.ttl.v ELSE zone.repr.ttl
         IN  [i \in 1..Len(rrset.records) |->
                 Record(hetzner_record_id(rrset.name, rrset.typ, rrset.records[i]),
                        rrset.name, from_raw(rrset.typ, rrset.records[i]), ttl)]
             \o rrsets_to_records(Tail(rrsets), zone)

format_value_for_api(data) ==
    IF data.variant = "TXT"
    THEN IF data.value # <<>> /\ data.value[1] = "\"" /\ data.value[Len(data.value)] = "\""
         THEN data.value
         ELSE <<"\"">> \o data.value \o <<"\"">>
    ELSE get_value(data)

\* The payloads handed to format_value_for_api: a TXT value for every
\* string of up to MaxTxtLen characters over a double quote, a letter, a
\* space and a backslash, and payloads of other types.
MaxTxtLen == 3

RECURSIVE StringsUpTo(_, _)
StringsUpTo(chars, n) ==
    IF n = 0 THEN {<<>>}
    ELSE StringsUpTo(chars, n - 1)
            \cup {Append(s, c) : s \in StringsUpTo(chars, n - 1), c \in chars}

HetznerValueInputs ==
    {[kind |-> "data", data |-> RD_TXT(v)] :
        v \in StringsUpTo({"\"", "a", " ", "\\"}, MaxTxtLen)}
    \cup {[kind |-> "data", data |-> d] :
            d \in {RD_A(<<192, 0, 2, 7>>), RD_MX(10, <<"m", ".", "e", "x", ".", "c", "o", "m">>),
                   RD_Other(<<"C", "A", "A">>, <<"\"">>)}}

\* format_value_for_api
HetznerFormatValueForApi ==
    /\ tyOp = "none"
    /\ tyOut' = <<format_value_for_api(tyIn.data)>>
    /\ tyOp' = "hetzner::format_value_for_api"
    /\ UNCHANGED tyIn
    /\ UNCHANGED <<labelVars, nameVars, ncVars, hzVars, cfVars, craneVars>>

(***************************************************************************)
(* The Hetzner service: one zone whose RRSets hold the values in the form  *)
(* the requests sent them.                                                 *)
(***************************************************************************)
HzZone == [id |-> 123, name |-> <<"e", "x", ".", "c", "o", "m">>, ttl |-> 3600]

\* HTTP statuses the service answers with instead of handling the request;
\* 0 is no fault.
HzFaults == {0, 401, 403}

HzFind(rrsets, name, typ) ==
    {i \in 1..Len(rrsets) : rrsets[i].name = name /\ rrsets[i].typ = typ}

HzRespond(req, fault, rrsets) ==
    LET found == HzFind(rrsets, req.rr_name, req.rr_type)
    IN  IF fault # 0 THEN [status |-> fault, body |-> [type |-> "error"]]
        ELSE IF req.zone_id_or_name \notin {to_string(HzZone.id), HzZone.name}
        THEN [status |-> 404, body |-> [type |-> "error"]]
        ELSE IF req.method = "retrieve_zone"
        THEN [status |-> 200, body |-> [type |-> "ZoneResponse", zone |-> HzZone]]
        ELSE IF req.method = "retrieve_rrsets"
        THEN [status |-> 200,
              body |-> [type |-> "RRSetsResponse", rrsets |-> rrsets,
                        pagination |-> [page |-> 1, last_page |-> 1,
                                        total_entries |-> Len(rrsets)]]]
        ELSE IF req.method = "retrieve_rrset"
        THEN IF found = {} THEN [status |-> 404, body |-> [type |-> "error"]]
             ELSE [status |-> 200,
                   body |-> [type |-> "RRSetResponse",
                             rrset |-> rrsets[CHOOSE i \in found : TRUE]]]
        ELSE IF req.method = "remove_records_from_rrset" /\ found = {}
        THEN [status |-> 404, body |-> [type |-> "error"]]
        ELSE [status |-> 201, body |-> [type |-> "ActionResponse"]]

HzRRSetsAfter(req, fault, rrsets) ==
    LET found == HzFind(rrsets, req.rr_name, req.rr_type)
        at == CHOOSE i \in found : TRUE
        kept == SelectSeq(rrsets[at].records, LAMBDA v : v \notin Range(req.records))
        added == SelectSeq(req.records, LAMBDA v : v \notin Range(rrsets[at].records))
    IN  IF fault # 0 \/ req.zone_id_or_name \notin {to_string(HzZone.id), HzZone.name} THEN rrsets
        ELSE IF req.method = "add_records_to_rrset"
        THEN IF found = {}
             THEN Append(rrsets, [name |-> req.rr_name, typ |-> req.rr_type,
                                  ttl |-> req.ttl, records |-> req.records])
             ELSE [rrsets EXCEPT ![at].records = @ \o added]
        ELSE IF req.method = "remove_records_from_rrset" /\ found # {}
        THEN IF kept = <<>>
             THEN SelectSeq(rrsets, LAMBDA r : r # rrsets[at])
             ELSE [rrsets EXCEPT ![at].records = kept]
        ELSE rrsets

(***************************************************************************)
(* A caller of the Hetzner adapter, one call after the other               *)
(***************************************************************************)
HzRecordIds == {<<"w", "/", "T", "X", "T", "/", "\"", "v", "\"">>, <<"w", "/", "A", "/", "1", "9", "2", ".", "0", ".", "2", ".", "7">>, <<"w", "/", "T", "X", "T", "/", "v">>, <<"w", "/", "A">>}

HzOut(op, record_id, status, result) ==
    [op |-> op, record_id |-> record_id, status |-> status, result |-> result]

\* The locals of list_zones: page, zones and total, and where the call is.
Listing(pc, page, listed, total, result) ==
    [pc |-> pc, page |-> page, zones |-> listed, total |-> total, result |-> result]

NoListing == Listing("idle", 0, <<>>, NoneValue, NoneValue)

HetznerIdle ==
    /\ hzRRSets = <<>>
    /\ hzZone = NoneValue
    /\ hzOut = HzOut("none", <<>>, 0, NoneValue)
    /\ hzCreated = NoneValue
    /\ hzCalls = 0
    /\ hzList = NoListing

\* HetznerProvider::get_zone
HetznerGetZone(zone_id, fault) ==
    /\ hzCalls < MaxHzCalls
    /\ LET req == hetzner_request("retrieve_zone", zone_id, <<>>, <<>>, <<>>, NoneValue)
           resp == HzRespond(req, fault, hzRRSets)
           response == hetzner_json(resp, "ZoneResponse")
           result == IF response.tag = "Err"
                     THEN hetzner_map_err(response.custom,
                                          404 :> "NotFound" @@ 401 :> "Unauthorized")
                     ELSE Ok(from_api(1, response.v.zone))
       IN  /\ hzZone' = IF result.tag = "Ok" THEN SomeValue(result.v) ELSE hzZone
           /\ hzOut' = HzOut("HetznerProvider::get_zone", zone_id, resp.status, result)
    /\ hzCalls' = hzCalls + 1
    /\ UNCHANGED <<hzRRSets, hzCreated>>
    /\ UNCHANGED hzList
    /\ UNCHANGED <<labelVars, nameVars, tyVars, ncVars, cfVars, craneVars>>

\* HetznerZone::list_records; the service answers with a single page
HetznerListRecords(fault) ==
    /\ hzCalls < MaxHzCalls
    /\ hzZone.tag = "Some"
    /\ LET zone == hzZone.v
           req == hetzner_request("retrieve_rrsets", zone.zone_id_str, <<>>, <<>>, <<>>,
                                  NoneValue)
           resp == HzRespond(req, fault, hzRRSets)
           response == hetzner_json(resp, "RRSetsResponse")
           err == hetzner_map_err(response.custom,
                                  404 :> "NotFound" @@ 401 :> "Unauthorized"
                                      @@ 403 :> "Unauthorized")
           result == IF response.tag = "Err"
                     THEN IF err.err = "NotFound" THEN Ok(<<>>) ELSE err
                     ELSE Ok(rrsets_to_records(response.v.rrsets, zone))
       IN  hzOut' = HzOut("HetznerZone::list_records", <<>>, resp.status, result)
    /\ hzCalls' = hzCalls + 1
    /\ UNCHANGED <<hzRRSets, hzZone, hzCreated>>
    /\ UNCHANGED hzList
    /\ UNCHANGED <<labelVars, nameVars, tyVars, ncVars, cfVars, craneVars>>

\* HetznerZone::get_record
HetznerGetRecord(record_id, fault) ==
    /\ hzCalls < MaxHzCalls
    /\ hzZone.tag = "Some"
    /\ LET zone == hzZone.v
           parts == splitn(3, record_id, "/")
           req == hetzner_request("retrieve_rrset", zone.zone_id_str, parts[1], parts[2],
                                  <<>>, NoneValue)
           resp == HzRespond(req, fault, hzRRSets)
           response == hetzner_json(resp, "RRSetResponse")
           rrset == response.v.rrset
           result == IF response.tag = "Err"
                     THEN hetzner_map_err(response.custom,
                                          404 :> "NotFound" @@ 401 :> "Unauthorized")
                     ELSE IF parts[3] \notin Range(rrset.records)
                     THEN Err("NotFound", NoCustom)
                     ELSE Ok(Record(record_id, rrset.name, from_raw(rrset.typ, parts[3]),
                                    IF rrset.ttl.tag = "Some" THEN rrset.ttl.v
                                    ELSE zone.repr.ttl))
       IN  hzOut' = IF Len(parts) # 3
                    THEN HzOut("HetznerZone::get_record", record_id, 0,
                               Err("NotFound", NoCustom))
                    ELSE HzOut("HetznerZone::get_record", record_id, resp.status, result)
    /\ hzCalls' = hzCalls + 1
    /\ UNCHANGED <<hzRRSets, hzZone, hzCreated>>
    /\ UNCHANGED hzList
    /\ UNCHANGED <<labelVars, nameVars, tyVars, ncVars, cfVars, craneVars>>

\* HetznerZone::create_record
HetznerCreateRecord(args, fault) ==
    /\ hzCalls < MaxHzCalls
    /\ hzZone.tag = "Some"
    /\ LET zone == hzZone.v
           typ == get_type(args.data)
           value == format_value_for_api(args.data)
           opt_ttl == IF args.ttl # zone.repr.ttl THEN SomeValue(args.ttl) ELSE NoneValue
           req == hetzner_request("add_records_to_rrset", zone.zone_id_str, args.host, typ,
                                  <<value>>, opt_ttl)
           resp == HzRespond(req, fault, hzRRSets)
           response == hetzner_json(resp, "ActionResponse")
           result == IF response.tag = "Err"
                     THEN hetzner_map_err(response.custom,
                                          401 :> "Unauthorized" @@ 422 :> "InvalidRecord")
                     ELSE Ok(Record(hetzner_record_id(args.host, typ, value), args.host,
                                    args.data, args.ttl))
       IN  IF typ \notin hetzner_SUPPORTED_RECORD_TYPES
           THEN /\ hzOut' = HzOut("HetznerZone::create_record", <<>>, 0,
                                  Err("UnsupportedType", NoCustom))
                /\ UNCHANGED <<hzRRSets, hzCreated>>
           ELSE /\ hzOut' = HzOut("HetznerZone::create_record", <<>>, resp.status, result)
                /\ hzRRSets' = HzRRSetsAfter(req, fault, hzRRSets)
                /\ hzCreated' = IF result.tag = "Ok" THEN SomeValue(result.v)
                                ELSE NoneValue
    /\ hzCalls' = hzCalls + 1
    /\ UNCHANGED hzZone
    /\ UNCHANGED hzList
    /\ UNCHANGED <<labelVars, nameVars, tyVars, ncVars, cfVars, craneVars>>

\* HetznerZone::delete_record
HetznerDeleteRecord(record_id, fault) ==
    /\ hzCalls < MaxHzCalls
    /\ hzZone.tag = "Some"
    /\ LET zone == hzZone.v
           parts == splitn(3, record_id, "/")
           req == hetzner_request("remove_records_from_rrset", zone.zone_id_str, parts[1],
                                  parts[2], <<parts[3]>>, NoneValue)
           resp == HzRespond(req, fault, hzRRSets)
           response == hetzner_json(resp, "ActionResponse")
           result == IF response.tag = "Err"
                     THEN hetzner_map_err(response.custom,
                                          404 :> "NotFound" @@ 401 :> "Unauthorized")
                     ELSE Ok(<<>>)
       IN  IF Len(parts) # 3
           THEN /\ hzOut' = HzOut("HetznerZone::delete_record", record_id, 0,
                                  Err("NotFound", NoCustom))
                /\ UNCHANGED <<hzRRSets, hzCreated>>
           ELSE /\ hzOut' = HzOut("HetznerZone::delete_record", record_id, resp.status,
                                  result)
                /\ hzRRSets' = HzRRSetsAfter(req, fault, hzRRSets)
                /\ hzCreated' = NoneValue
    /\ hzCalls' = hzCalls + 1
    /\ UNCHANGED hzZone
    /\ UNCHANGED hzList
    /\ UNCHANGED <<labelVars, nameVars, tyVars, ncVars, cfVars, craneVars>>

(***************************************************************************)
(* HetznerProvider::list_zones, one page request at a time                 *)
(***************************************************************************)
MaxPages == 4

\* The answers to GET /zones?page=..&per_page=100: a page of zones with any
\* total_entries, or an error status with an error body.
HzZonesResponses ==
    {[status |-> 200,
      body |-> [type |-> "ZonesResponse", zones |-> zs, total_entries |-> n]] :
        zs \in {<<>>, <<HzZone>>, <<HzZone, [id |-> 124, name |-> <<"e", "x", ".", "o", "r", "g">>, ttl |-> 300]>>},
        n \in 0..3}
    \cup {[status |-> st, body |-> [type |-> "error"]] : st \in {401, 404}}

\* One turn of the loop of list_zones: the request for the current page and
\* the handling of its response, up to the next request or the return.
HetznerListZonesPage(resp) ==
    /\ LET locals == IF hzList.pc = "paging" THEN hzList
                     ELSE Listing("paging", 1, <<>>, NoneValue, NoneValue)
           response == hetzner_json(resp, "ZonesResponse")
           err == hetzner_map_err(response.custom,
                                  404 :> "NotFound" @@ 401 :> "Unauthorized"
                                      @@ 403 :> "Unauthorized")
           total == IF locals.total.tag = "None"
                    THEN SomeValue(response.v.total_entries) ELSE locals.total
           listed == locals.zones \o
                        [i \in 1..Len(response.v.zones) |-> from_api(1, response.v.zones[i])]
       IN  /\ locals.page <= MaxPages
           /\ hzList' =
                 IF response.tag = "Err"
                 THEN IF err.err = "NotFound"
                      THEN Listing("done", locals.page, locals.zones, locals.total,
                                   Ok(locals.zones))
                      ELSE Listing("done", locals.page, locals.zones, locals.total, err)
                 ELSE IF Len(listed) = total.v
                 THEN Listing("done", locals.page, listed, total, Ok(listed))
                 ELSE Listing("paging", locals.page + 1, listed, total, NoneValue)
    /\ UNCHANGED <<hzRRSets, hzZone, hzOut, hzCreated, hzCalls>>
    /\ UNCHANGED <<labelVars, nameVars, tyVars, ncVars, cfVars, craneVars>>

(***************************************************************************)
(* Cloudflare: src/cloudflare/api.rs and src/cloudflare/mod.rs             *)
(***************************************************************************)
MaxCfCalls == 3

\* per_page of the requests of get_list, 100 in the code
CfPerPage == 2

\* str.ends_with(suffix)
ends_with(str, suffix) ==
    /\ Len(suffix) <= Len(str)
    /\ SubSeq(str, Len(str) - Len(suffix) + 1, Len(str)) = suffix

cloudflare_SUPPORTED_RECORD_TYPES ==
    {<<"A">>, <<"A", "A", "A", "A">>, <<"C", "N", "A", "M", "E">>, <<"M", "X">>, <<"N", "S">>, <<"T", "X", "T">>, <<"S", "R", "V">>}

ApiError(code, message, detail) == [code |-> code, message |-> message, detail |-> detail]

\* CloudflareError::Api
CloudflareError_Api(error) == [kind |-> "Api", error |-> error]

DnsRecord(id, name, record_type, content, ttl, priority, data) ==
    [id |-> id, name |-> name, record_type |-> record_type, content |-> content,
     ttl |-> ttl, priority |-> priority, data |-> data]

RecordConversionError(record_type, reason) ==
    Err("RecordConversionError", [record_type |-> record_type, reason |-> reason])

\* Option<u16>::unwrap_or
unwrap_or(option, default) == IF option.tag = "Some" THEN option.v ELSE default

\* impl TryFrom<DnsRecordWithZone> for Record.  No content of this model is
\* an IPv6 literal, so the AAAA arm can only fail.
try_from(record, zone_name) ==
    LET host == IF record.name = zone_name THEN <<"@">>
                ELSE IF ends_with(record.name, <<".">> \o zone_name)
                THEN SubSeq(record.name, 1, Len(record.name) - Len(zone_name) - 1)
                ELSE record.name
        typ == record.record_type
        parts == split_whitespace(record.content)
        done(data) == Ok(Record(record.id, host, data, record.ttl))
    IN  CASE typ = <<"A">> ->
                IF parse_ipv4(record.content).tag = "Some"
                THEN done(RD_A(parse_ipv4(record.content).v))
                ELSE RecordConversionError(typ, "invalid IPv4 address")
          [] typ = <<"A", "A", "A", "A">> -> RecordConversionError(typ, "invalid IPv6 address")
          [] typ = <<"C", "N", "A", "M", "E">> -> done(RD_CNAME(record.content))
          [] typ = <<"M", "X">> -> done(RD_MX(unwrap_or(record.priority, 10), record.content))
          [] typ = <<"N", "S">> -> done(RD_NS(record.content))
          [] typ = <<"T", "X", "T">> -> done(RD_TXT(record.content))
          [] typ = <<"S", "R", "V">> ->
                IF record.data.tag = "Some"
                THEN done(RD_SRV(unwrap_or(record.data.v.priority, 0),
                                 unwrap_or(record.data.v.weight, 0),
                                 unwrap_or(record.data.v.port, 0),
                                 unwrap_or(record.data.v.target, <<>>)))
                ELSE IF Len(parts) >= 4
                THEN done(RD_SRV(unwrap_or(parse_u16(parts[1]), 0),
                                 unwrap_or(parse_u16(parts[2]), 0),
                                 unwrap_or(parse_u16(parts[3]), 0), parts[4]))
                ELSE RecordConversionError(
                         typ, "SRV record requires 4 parts: priority weight port target")
          [] OTHER -> RecordConversionError(typ, "unsupported record type")

\* CreateRecordRequest::from_record_data; the ttl values of this model are
\* below 2^32, where `ttl as u32` keeps the value.
from_record_data(host, data, ttl, zone_name) ==
    LET name == IF host = <<"@">> \/ host = <<>> THEN zone_name
                ELSE IF ends_with(host, zone_name) THEN host
                ELSE dot_join(host, zone_name)
        srv_data == [service |-> NoneValue, proto |-> NoneValue, name |-> NoneValue,
                     priority |-> SomeValue(data.priority),
                     weight |-> SomeValue(data.weight), port |-> SomeValue(data.port),
                     target |-> SomeValue(data.target)]
        build(record_type, content, priority, srv) ==
            IF record_type \notin cloudflare_SUPPORTED_RECORD_TYPES
            THEN Err("UnsupportedType", NoCustom)
            ELSE Ok([record_type |-> record_type, name |-> name, content |-> content,
                     ttl |-> IF ttl = 0 THEN 1 ELSE ttl, proxied |-> SomeValue(FALSE),
                     priority |-> priority, data |-> srv])
    IN  CASE data.variant = "A" ->
                build(<<"A">>, ipv4_to_string(data.ip), NoneValue, NoneValue)
          [] data.variant \in {"CNAME", "NS", "TXT"} ->
                build(get_type(data), data.value, NoneValue, NoneValue)
          [] data.variant = "MX" ->
                build(<<"M", "X">>, data.mail_server, SomeValue(data.priority), NoneValue)
          [] data.variant = "SRV" ->
                build(<<"S", "R", "V">>,
                        to_string(data.weight) \o <<" ">> \o to_string(data.port) \o <<" ">>
                            \o data.target,
                        SomeValue(data.priority), SomeValue(srv_data))
          [] data.variant = "Other" -> build(data.typ, data.value, NoneValue, NoneValue)

\* The tail shared by Client::get, Client::post and Client::delete: the
\* first error of an unsuccessful response, else the result.
cloudflare_get(api_response) ==
    IF ~api_response.success
    THEN Err("CloudflareError",
             CloudflareError_Api(IF api_response.errors # <<>> THEN api_response.errors[1]
                                 ELSE ApiError(0, "Unknown error", <<>>)))
    ELSE IF api_response.result.tag = "None"
    THEN Err("CloudflareError",
             CloudflareError_Api(ApiError(0, "No result in response", <<>>)))
    ELSE Ok(api_response.result.v)

\* The loop of Client::get_list from the request for the given page on,
\* pages[p] being the answer of the service to the request for page p.
RECURSIVE get_list_from(_, _, _)
get_list_from(pages, page, all_results) ==
    LET api_response == pages[page]
        results == api_response.result.v
    IN  IF ~api_response.success THEN cloudflare_get(api_response)
        ELSE IF api_response.result.tag = "None" THEN Ok(all_results)
        ELSE IF api_response.result_info.tag = "None" THEN Ok(all_results \o results)
        ELSE IF page >= api_response.result_info.v.total_pages \/ Len(results) = 0
        THEN Ok(all_results \o results)
        ELSE get_list_from(pages, page + 1, all_results \o results)

\* Client::get_list
cloudflare_get_list(pages) == get_list_from(pages, 1, <<>>)

\* The map_err closures of cloudflare/mod.rs
cloudflare_map_err(err, named) ==
    IF err.kind = "Api" /\ err.error.code \in DOMAIN named
    THEN Err(named[err.error.code], NoCustom)
    ELSE Err("Custom", err)

\* The map_err closure for a record that does not convert:
\* format!("Failed to convert record: {}", e)
conversion_failure(e) ==
    Err("Custom", CloudflareError_Api(
            ApiError(0, "Failed to convert record: failed to convert {} record: {}",
                     <<e.record_type, e.reason>>)))

(***************************************************************************)
(* The Cloudflare service: the DNS records of one zone                     *)
(***************************************************************************)
CfZone == [api_client |-> 1, repr |-> [id |-> <<"z", "1">>, name |-> <<"e", "x", ".", "c", "o", "m">>]]

\* Error codes the service answers with instead of handling the request;
\* 0 is no fault.
CfFaults == {0, 10000}

CfFailure(code) ==
    [success |-> FALSE, errors |-> <<ApiError(code, "error", <<>>)>>,
     result |-> NoneValue, result_info |-> NoneValue]

CfSuccess(result) ==
    [success |-> TRUE, errors |-> <<>>, result |-> SomeValue(result),
     result_info |-> SomeValue([page |-> 1, total_pages |-> 1])]

CfRespond(req, fault, records, nextId) ==
    LET found == {i \in 1..Len(records) : records[i].id = req.record_id}
        same == {i \in 1..Len(records) :
                    /\ records[i].name = req.body.name
                    /\ records[i].record_type = req.body.record_type
                    /\ records[i].content = req.body.content}
    IN  IF fault # 0 THEN CfFailure(fault)
        ELSE IF req.method = "create_record"
        THEN IF same # {} THEN CfFailure(81057) ELSE CfSuccess(DnsRecord(<<"r">> \o to_string(nextId), req.body.name,
                               req.body.record_type, req.body.content, req.body.ttl,
                               req.body.priority, req.body.data))
        ELSE IF found = {} THEN CfFailure(81044)
        ELSE IF req.method = "get_record"
        THEN CfSuccess(records[CHOOSE i \in found : TRUE])
        ELSE CfSuccess([id |-> req.record_id])

\* The answers to GET .../dns_records?page=p&per_page=..: the p-th slice of
\* the records, with the number of pages in result_info.
CfListPages(fault, records) ==
    LET total_pages == (Len(records) + CfPerPage - 1) \div CfPerPage
        slice(p) == SubSeq(records, (p - 1) * CfPerPage + 1,
                           IF p * CfPerPage < Len(records) THEN p * CfPerPage
                           ELSE Len(records))
    IN  [p \in 1..(total_pages + 1) |->
            IF fault # 0 THEN CfFailure(fault)
            ELSE [success |-> TRUE, errors |-> <<>>, result |-> SomeValue(slice(p)),
                  result_info |-> SomeValue([page |-> p, total_pages |-> total_pages])]]

CfRecordsAfter(req, resp, records) ==
    IF ~resp.success THEN records
    ELSE IF req.method = "create_record" THEN Append(records, resp.result.v)
    ELSE IF req.method = "delete_record"
    THEN SelectSeq(records, LAMBDA r : r.id # req.record_id)
    ELSE records

(***************************************************************************)
(* A caller of one CloudflareZone, one call after the other                *)
(***************************************************************************)
CfRecordIds == {<<"r", "1">>, <<"r", "2">>, <<"r", "3">>, <<"r", "9">>}

cloudflare_request(method, zone_id, record_id, body) ==
    [method |-> method, zone_id |-> zone_id, record_id |-> record_id, body |-> body]

\* The type strings of the records of a decoded response that do not convert.
CfUnconvertible(records) ==
    {records[i].record_type : i \in {j \in 1..Len(records) :
                                        try_from(records[j], CfZone.repr.name).tag = "Err"}}

CfOut(op, record_id, result, unconvertible) ==
    [op |-> op, record_id |-> record_id, result |-> result,
     unconvertible |-> unconvertible]

CloudflareIdle ==
    /\ cfRecords = <<>>
    /\ cfNextId = 0
    /\ cfOut = CfOut("none", <<>>, NoneValue, {})
    /\ cfCalls = 0

\* CloudflareZone::list_records
CloudflareListRecords(fault) ==
    /\ cfCalls < MaxCfCalls
    /\ LET records == cloudflare_get_list(CfListPages(fault, cfRecords))
           converted == [i \in 1..Len(records.v) |-> try_from(records.v[i], CfZone.repr.name)]
           kept == SelectSeq(converted, LAMBDA r : r.tag = "Ok")
       IN  cfOut' =
             IF records.tag = "Err"
             THEN CfOut("CloudflareZone::list_records", <<>>,
                        cloudflare_map_err(records.custom,
                                           9106 :> "Unauthorized" @@ 10000 :> "Unauthorized"),
                        {})
             ELSE CfOut("CloudflareZone::list_records", <<>>,
                        Ok([i \in 1..Len(kept) |-> kept[i].v]), CfUnconvertible(records.v))
    /\ cfCalls' = cfCalls + 1
    /\ UNCHANGED <<cfRecords, cfNextId>>
    /\ UNCHANGED <<labelVars, nameVars, tyVars, ncVars, hzVars, craneVars>>

\* CloudflareZone::get_record
CloudflareGetRecord(record_id, fault) ==
    /\ cfCalls < MaxCfCalls
    /\ LET req == cloudflare_request("get_record", CfZone.repr.id, record_id, <<>>)
           resp == CfRespond(req, fault, cfRecords, cfNextId)
           record == cloudflare_get(resp)
           converted == try_from(record.v, CfZone.repr.name)
       IN  cfOut' =
             IF record.tag = "Err"
             THEN CfOut("CloudflareZone::get_record", record_id,
                        cloudflare_map_err(record.custom,
                                           81044 :> "NotFound" @@ 9106 :> "Unauthorized"
                                               @@ 10000 :> "Unauthorized"),
                        {})
             ELSE CfOut("CloudflareZone::get_record", record_id,
                        IF converted.tag = "Err" THEN conversion_failure(converted.custom)
                        ELSE converted,
                        CfUnconvertible(<<record.v>>))
    /\ cfCalls' = cfCalls + 1
    /\ UNCHANGED <<cfRecords, cfNextId>>
    /\ UNCHANGED <<labelVars, nameVars, tyVars, ncVars, hzVars, craneVars>>

\* CloudflareZone::create_record
CloudflareCreateRecord(args, fault) ==
    /\ cfCalls < MaxCfCalls
    /\ LET built == from_record_data(args.host, args.data, args.ttl, CfZone.repr.name)
           req == cloudflare_request("create_record", CfZone.repr.id, <<>>, built.v)
           resp == CfRespond(req, fault, cfRecords, cfNextId)
           record == cloudflare_get(resp)
           converted == try_from(record.v, CfZone.repr.name)
       IN  IF built.tag = "Err"
           THEN /\ cfOut' = CfOut("CloudflareZone::create_record", <<>>,
                                  Err("UnsupportedType", NoCustom), {})
                /\ UNCHANGED <<cfRecords, cfNextId>>
           ELSE /\ cfOut' =
                     IF record.tag = "Err"
                     THEN CfOut("CloudflareZone::create_record", <<>>,
                                cloudflare_map_err(record.custom,
                                                   9106 :> "Unauthorized"
                                                       @@ 10000 :> "Unauthorized"
                                                       @@ 81057 :> "InvalidRecord"),
                                {})
                     ELSE CfOut("CloudflareZone::create_record", <<>>,
                                IF converted.tag = "Err"
                                THEN conversion_failure(converted.custom)
                                ELSE converted,
                                CfUnconvertible(<<record.v>>))
                /\ cfRecords' = CfRecordsAfter(req, resp, cfRecords)
                /\ cfNextId' = IF resp.success THEN cfNextId + 1 ELSE cfNextId
    /\ cfCalls' = cfCalls + 1
    /\ UNCHANGED <<labelVars, nameVars, tyVars, ncVars, hzVars, craneVars>>

\* CloudflareZone::delete_record
CloudflareDeleteRecord(record_id, fault) ==
    /\ cfCalls < MaxCfCalls
    /\ LET req == cloudflare_request("delete_record", CfZone.repr.id, record_id, <<>>)
           resp == CfRespond(req, fault, cfRecords, cfNextId)
           deleted == cloudflare_get(resp)
       IN  /\ cfOut' =
                 CfOut("CloudflareZone::delete_record", record_id,
                       IF deleted.tag = "Err"
                       THEN cloudflare_map_err(deleted.custom,
                                               81044 :> "NotFound" @@ 9106 :> "Unauthorized"
                                                   @@ 10000 :> "Unauthorized")
                       ELSE Ok(<<>>),
                       {})
           /\ cfRecords' = CfRecordsAfter(req, resp, cfRecords)
    /\ cfCalls' = cfCalls + 1
    /\ UNCHANGED cfNextId
    /\ UNCHANGED <<labelVars, nameVars, tyVars, ncVars, hzVars, craneVars>>

(***************************************************************************)
(* Namecrane: src/namecrane/api.rs and src/namecrane/mod.rs                *)
(***************************************************************************)
MaxCraneCalls == 3

\* str::bytes() of the printable ASCII characters, 32 to 126
as_bytes(str) ==
    LET Printable ==
            <<" ", "!", "\"", "#", "$", "%", "&", "'", "(", ")", "*", "+", ",", "-", ".", "/", "0", "1", "2", "3", "4", "5", "6", "7", "8", "9", ":", ";", "<", "=", ">", "?", "@", "A", "B", "C", "D", "E", "F", "G", "H", "I", "J", "K", "L", "M", "N", "O", "P", "Q", "R", "S", "T", "U", "V", "W", "X", "Y", "Z">>
                \o <<"[", "\\", "]", "^", "_">> \o <<"grave accent">> \o <<"a", "b", "c", "d", "e", "f", "g", "h", "i", "j", "k", "l", "m", "n", "o", "p", "q", "r", "s", "t", "u", "v", "w", "x", "y", "z", "{", "|", "}", "~">>
    IN  [i \in 1..Len(str) |->
            31 + (CHOOSE k \in 1..Len(Printable) : Printable[k] = str[i])]

\* u32::wrapping_add(a, b) for b below 2^16
wrapping_add(a, b) ==
    u32((a.hi + ((a.lo + b) \div 65536)) % 65536, (a.lo + b) % 65536)

\* u32::wrapping_mul(a, k) for k below 2^15
wrapping_mul(a, k) ==
    u32((a.hi * k + ((a.lo * k) \div 65536)) % 65536, (a.lo * k) % 65536)

\* content_hash: fold(0u32, |acc, b| acc.wrapping_add(b).wrapping_mul(31))
\* formatted with {:08x}
\* (each step takes the value of the step before it, acc, once)
content_hash(content) ==
    LET fold[n \in 0..Len(content)] ==
            IF n = 0 THEN u32(0, 0)
            ELSE CHOOSE hash \in {wrapping_mul(wrapping_add(acc, as_bytes(content)[n]), 31) :
                                     acc \in {fold[n - 1]}} : TRUE
        hex4(n) == Repeat("0", 4 - Len(to_hex(n))) \o to_hex(n)
    IN  CHOOSE str \in {hex4(hash.hi) \o hex4(hash.lo) : hash \in {fold[Len(content)]}} : TRUE

\* synthesize_record_id
synthesize_record_id(name, record_type, content) ==
    name \o <<":">> \o record_type \o <<":">> \o content_hash(content)

\* parse_record_id
parse_record_id(id) ==
    IF Len(splitn(3, id, ":")) = 3 THEN SomeValue(splitn(3, id, ":")) ELSE NoneValue

\* str::starts_with
starts_with(str, prefix) ==
    /\ Len(prefix) <= Len(str)
    /\ SubSeq(str, 1, Len(prefix)) = prefix

\* ApiRecord
ApiRecord(name, record_type, content, ttl, priority) ==
    [name |-> name, record_type |-> record_type, content |-> content, ttl |-> ttl,
     priority |-> priority]

\* api_record_to_record
api_record_to_record(api_record, domain) ==
    LET parts == splitn(3, api_record.content, " ")
        or(opt, default) == IF opt.tag = "Some" THEN opt.v ELSE default
    IN  Record(synthesize_record_id(api_record.name, api_record.record_type,
                                    api_record.content),
               IF api_record.name = <<"@">> THEN domain ELSE dot_join(api_record.name, domain),
               IF api_record.record_type = <<"M", "X">>
               THEN RD_MX(or(api_record.priority, 10), api_record.content)
               ELSE IF api_record.record_type = <<"S", "R", "V">> /\ Len(parts) >= 3
               THEN RD_SRV(or(api_record.priority, 0), or(parse_u16(parts[1]), 0),
                           or(parse_u16(parts[2]), 0), parts[3])
               ELSE from_raw(api_record.record_type, api_record.content),
               api_record.ttl)
(***************************************************************************)
(* The Namecrane service: the records of one domain, addressed by name,    *)
(* type and content                                                        *)
(***************************************************************************)
CraneDomain == <<"e", "x", ".", "c", "o", "m">>

\* HTTP statuses the service answers with instead of handling the request;
\* 0 is no fault.
CraneFaults == {0, 401}

\* Client::list, given the records of the service
namecrane_list(records, record_type, fault) ==
    IF fault = 401 THEN Err("Native", NcError("Unauthorized", ""))
    ELSE Ok(SelectSeq(records,
                      LAMBDA r : record_type.tag = "None" \/ r.record_type = record_type.v))

\* Client::create: the service refuses a record it already holds
namecrane_create(records, name, record_type, content, fault) ==
    IF fault = 401 THEN Err("Native", NcError("Unauthorized", ""))
    ELSE IF \E i \in 1..Len(records) :
                /\ records[i].name = name
                /\ records[i].record_type = record_type
                /\ records[i].content = content
    THEN Err("Native", NcError("Api", "Record already exists"))
    ELSE Ok(<<>>)

\* Client::delete: the service answers 404 when it holds no such record
namecrane_delete(records, name, record_type, content, fault) ==
    IF fault = 401 THEN Err("Native", NcError("Unauthorized", ""))
    ELSE IF ~\E i \in 1..Len(records) :
                /\ records[i].name = name
                /\ records[i].record_type = record_type
                /\ records[i].content = content
    THEN Err("Native", NcError("RecordNotFound", ""))
    ELSE Ok(<<>>)

\* NamecraneZone::get_record
namecrane_get_record(records, record_id, fault) ==
    LET parsed == parse_record_id(record_id)
        api_records == namecrane_list(records, SomeValue(parsed.v[2]), fault)
        hits == {i \in 1..Len(api_records.v) :
                    /\ api_records.v[i].name = parsed.v[1]
                    /\ starts_with(content_hash(api_records.v[i].content), parsed.v[3])}
    IN  IF parsed.tag = "None"
        THEN Err("Custom", NcError("Parse", "Invalid record ID format"))
        ELSE IF api_records.tag = "Err" THEN unauthorized_or_custom(api_records.custom)
        ELSE IF hits = {} THEN Err("NotFound", NoCustom)
        ELSE Ok(api_record_to_record(
                    api_records.v[CHOOSE i \in hits : \A j \in hits : i <= j],
                    CraneDomain))

\* str::strip_suffix(suffix).unwrap_or(str)
strip_suffix_or(str, suffix) ==
    IF ends_with(str, suffix) THEN SubSeq(str, 1, Len(str) - Len(suffix)) ELSE str

(***************************************************************************)
(* A caller of one NamecraneZone, one call after the other                 *)
(***************************************************************************)
CraneOut(op, record_id, fault, result) ==
    [op |-> op, record_id |-> record_id, fault |-> fault, result |-> result]

NamecraneIdle ==
    /\ craneRecords = <<>>
    /\ craneOut = CraneOut("none", <<>>, 0, NoneValue)
    /\ craneCalls = 0

\* The ids a caller may ask for: those of the records of the service, ids
\* that do not have three parts, an id of no record, and a name and type
\* followed by an empty hash.
CraneRecordIds ==
    {synthesize_record_id(craneRecords[i].name, craneRecords[i].record_type,
                          craneRecords[i].content) : i \in 1..Len(craneRecords)}
        \cup {<<"i", "n", "v", "a", "l", "i", "d">>, <<"o", "n", "l", "y", ":", "t", "w", "o">>, <<"t", ":", "T", "X", "T", ":", "0", "0", "0", "0", "0", "0", "0", "0">>, <<"t", ":", "T", "X", "T", ":">>}

\* NamecraneZone::list_records
NamecraneListRecords(fault) ==
    /\ craneCalls < MaxCraneCalls
    /\ LET api_records == namecrane_list(craneRecords, NoneValue, fault)
           result == IF api_records.tag = "Err"
                     THEN unauthorized_or_custom(api_records.custom)
                     ELSE Ok([i \in 1..Len(api_records.v) |->
                                 api_record_to_record(api_records.v[i], CraneDomain)])
       IN  craneOut' = CraneOut("NamecraneZone::list_records", <<>>, fault, result)
    /\ craneCalls' = craneCalls + 1
    /\ UNCHANGED craneRecords
    /\ UNCHANGED <<labelVars, nameVars, tyVars, ncVars, hzVars, cfVars>>

\* NamecraneZone::get_record
NamecraneGetRecord(record_id, fault) ==
    /\ craneCalls < MaxCraneCalls
    /\ craneOut' = CraneOut("NamecraneZone::get_record", record_id, fault,
                            namecrane_get_record(craneRecords, record_id, fault))
    /\ craneCalls' = craneCalls + 1
    /\ UNCHANGED craneRecords
    /\ UNCHANGED <<labelVars, nameVars, tyVars, ncVars, hzVars, cfVars>>

\* NamecraneZone::create_record
NamecraneCreateRecord(args, fault) ==
    /\ craneCalls < MaxCraneCalls
    /\ LET record_type == get_type(args.data)
           content == get_api_value(args.data)
           priority == IF args.data.variant \in {"MX", "SRV"}
                       THEN SomeValue(args.data.priority) ELSE NoneValue
           created == namecrane_create(craneRecords, args.host, record_type, content, fault)
           result == IF created.tag = "Err" THEN unauthorized_or_custom(created.custom)
                     ELSE Ok(Record(synthesize_record_id(args.host, record_type, content),
                                    IF args.host = <<"@">> THEN CraneDomain
                                    ELSE dot_join(args.host, CraneDomain),
                                    args.data, args.ttl))
       IN  /\ craneOut' = CraneOut("NamecraneZone::create_record", <<>>, fault, result)
           /\ craneRecords' =
                 IF created.tag = "Ok"
                 THEN Append(craneRecords,
                             ApiRecord(args.host, record_type, content, args.ttl, priority))
                 ELSE craneRecords
    /\ craneCalls' = craneCalls + 1
    /\ UNCHANGED <<labelVars, nameVars, tyVars, ncVars, hzVars, cfVars>>

\* NamecraneZone::delete_record
NamecraneDeleteRecord(record_id, fault) ==
    /\ craneCalls < MaxCraneCalls
    /\ \E record \in {namecrane_get_record(craneRecords, record_id, fault)} :
       LET relative_host == IF record.v.host = CraneDomain THEN <<"@">>
                            ELSE strip_suffix_or(record.v.host, <<".">> \o CraneDomain)
           record_type == get_type(record.v.data)
           content == get_api_value(record.v.data)
           deleted == namecrane_delete(craneRecords, relative_host, record_type, content,
                                       fault)
           result == IF record.tag = "Err" THEN record
                     ELSE IF deleted.tag = "Ok" THEN Ok(<<>>)
                     ELSE IF deleted.custom.kind = "Unauthorized"
                     THEN Err("Unauthorized", NoCustom)
                     ELSE IF deleted.custom.kind = "RecordNotFound"
                     THEN Err("NotFound", NoCustom)
                     ELSE Err("Custom", deleted.custom)
       IN  /\ craneOut' = CraneOut("NamecraneZone::delete_record", record_id, fault, result)
           /\ craneRecords' =
                 IF result.tag = "Ok"
                 THEN SelectSeq(craneRecords,
                                LAMBDA r : ~(/\ r.name = relative_host
                                             /\ r.record_type = record_type
                                             /\ r.content = content))
                 ELSE craneRecords
    /\ craneCalls' = craneCalls + 1
    /\ UNCHANGED <<labelVars, nameVars, tyVars, ncVars, hzVars, cfVars>>

(***************************************************************************)
(* Specifications of the value types                                       *)
(***************************************************************************)
InitLabel ==
    /\ lblInput \in ByteSlices
    /\ lblOut = [tag |-> "Unset"]
    /\ lblOp = "none"
    /\ NameIdle
    /\ TypesIdle
    /\ NamecheapIdle
    /\ HetznerIdle
    /\ CloudflareIdle
    /\ NamecraneIdle

NextLabel == LabelNew \/ LabelFromStr \/ LabelDefault

SpecLabel == InitLabel /\ [][NextLabel]_vars

InitName ==
    /\ dnInput \in DottedInputs
    /\ dnOut = [tag |-> "Unset"]
    /\ dnOp = "none"
    /\ dnDotted = <<>>
    /\ LabelIdle
    /\ TypesIdle
    /\ NamecheapIdle
    /\ HetznerIdle
    /\ CloudflareIdle
    /\ NamecraneIdle

NextName == NameFromDotted \/ NameDefault \/ NameToDotted

SpecName == InitName /\ [][NextName]_vars

InitTtl ==
    /\ tyIn \in U32Inputs
    /\ tyOut = [tag |-> "Unset"]
    /\ tyOp = "none"
    /\ LabelIdle
    /\ NameIdle
    /\ NamecheapIdle
    /\ HetznerIdle
    /\ CloudflareIdle
    /\ NamecraneIdle

NextTtl == TtlNew \/ TtlTryNew \/ TtlFrom

SpecTtl == InitTtl /\ [][NextTtl]_vars

InitRecordType ==
    /\ tyIn \in TypeInputs
    /\ tyOut = <<>>
    /\ tyOp = "none"
    /\ LabelIdle
    /\ NameIdle
    /\ NamecheapIdle
    /\ HetznerIdle
    /\ CloudflareIdle
    /\ NamecraneIdle

NextRecordType ==
    \/ RecordTypeFromU16
    \/ RecordTypeAsU16
    \/ RecordTypeFromStr
    \/ RecordTypeAsStr
    \/ RecordClassFromU16
    \/ RecordClassAsU16
    \/ RecordClassToString

SpecRecordType == InitRecordType /\ [][NextRecordType]_vars

InitRecordData ==
    /\ tyIn \in RecordDataInputs
    /\ tyOut = <<>>
    /\ tyOp = "none"
    /\ LabelIdle
    /\ NameIdle
    /\ NamecheapIdle
    /\ HetznerIdle
    /\ CloudflareIdle
    /\ NamecraneIdle

NextRecordData ==
    \/ RecordDataFromRaw
    \/ RecordDataGetType
    \/ RecordDataGetValue
    \/ RecordDataGetApiValue

SpecRecordData == InitRecordData /\ [][NextRecordData]_vars

(***************************************************************************)
(* Specification of the concurrent callers of Namecheap and DNSPod         *)
(***************************************************************************)
InitNamecheap ==
    /\ apiClients =
          <<[http_client |-> 1,
             config |-> [api_user |-> "user", api_key |-> "key", username |-> "user",
                         client_ip |-> "192.0.2.1", environment |-> "Sandbox"]],
            [http_client |-> 2, config |-> [login_token |-> "id,token"]]>>
    /\ providers = <<Provider("namecheap", 1), Provider("dnspod", 2)>>
    /\ zones = <<>>
    /\ ncHosts \in
          {[d \in RegisteredDomains |-> IF d = <<<<"e", "x">>, <<"c", "o", "m">>>> THEN hs ELSE <<>>] :
              hs \in {<<>>,
                      <<[HostId |-> <<"1">>, Name |-> <<"w">>, Type |-> <<"A">>,
                         Address |-> <<"1", "9", "2", ".", "0", ".", "2", ".", "1">>, TTL |-> <<"1", "8", "0", "0">>, MXPref |-> <<"1", "0">>]>>}}
    /\ ncNextHostId = 2
    /\ tasks = [t \in 1..NumTasks |-> IdleTask]
    /\ lastRequest = NoRequest
    /\ ncCalls = 0
    /\ ncCreated = {}
    /\ ncDeleted = {}
    /\ ncAllOk = TRUE
    /\ LabelIdle
    /\ NameIdle
    /\ TypesIdle
    /\ HetznerIdle
    /\ CloudflareIdle
    /\ NamecraneIdle

NextNamecheap ==
    \/ \E p \in 1..Len(providers) : NamecheapProviderClone(p)
    \/ \E p \in 1..Len(providers) : DnspodProviderClone(p)
    \/ \E t \in 1..NumTasks, p \in 1..Len(providers), zone_id \in {<<"e", "x", ".", "c", "o", "m">>, <<"7">>, <<"8">>} :
            DnspodGetZone(t, p, zone_id)
    \/ \E t \in 1..NumTasks, p \in 1..Len(providers), zone_id \in {<<"e", "x", ".", "c", "o", "m">>, <<"e", "x", ".", "c", "o", "m", ".">>, <<"e", "x", ".", "c", "o", ".", "u", "k">>, <<"c", "o", "m">>},
           fault \in NcFaults :
            NamecheapGetZone(t, p, zone_id, fault)
    \/ \E t \in 1..NumTasks, z \in 1..Len(zones), fault \in NcFaults :
            NamecheapListRecords(t, z, fault)
    \/ \E t \in 1..NumTasks, z \in 1..Len(zones), record_id \in NcRecordIds, fault \in NcFaults :
            NamecheapGetRecord(t, z, record_id, fault)
    \/ \E t \in 1..NumTasks, z \in 1..Len(zones), args \in
             {[host |-> <<"w">>, data |-> RD_A(<<192, 0, 2, 7>>), ttl |-> 30],
              [host |-> <<"@">>, data |-> RD_MX(10, <<"M", ".", "e", "x", ".", "c", "o", "m", ".">>), ttl |-> 70000],
              [host |-> <<"w">>, data |-> RD_Other(<<"Z", "Z">>, <<"v">>), ttl |-> 300]},
         fault \in NcFaults :
            NamecheapCreateFetch(t, z, args, fault)
    \/ \E t \in 1..NumTasks, fault \in NcFaults : NamecheapCreateSave(t, fault)
    \/ \E t \in 1..NumTasks, fault \in NcFaults : NamecheapCreateRefetch(t, fault)
    \/ \E t \in 1..NumTasks, z \in 1..Len(zones), record_id \in NcRecordIds, fault \in NcFaults :
            NamecheapDeleteFetch(t, z, record_id, fault)
    \/ \E t \in 1..NumTasks, fault \in NcFaults : NamecheapDeleteSave(t, fault)

SpecNamecheap == InitNamecheap /\ [][NextNamecheap]_vars

(***************************************************************************)
(* Specification of a single caller of the Namecheap adapter: no other     *)
(* call runs between the requests of one call.                             *)
(***************************************************************************)
InitNamecheapCaller ==
    /\ apiClients =
          <<[http_client |-> 1,
             config |-> [api_user |-> "user", api_key |-> "key", username |-> "user",
                         client_ip |-> "192.0.2.1", environment |-> "Sandbox"]]>>
    /\ providers = <<Provider("namecheap", 1)>>
    /\ zones = <<>>
    /\ ncHosts \in
          {[d \in RegisteredDomains |-> IF d = <<<<"e", "x">>, <<"c", "o", "m">>>> THEN hs ELSE <<>>] :
              hs \in {<<>>,
                      <<[HostId |-> <<"1">>, Name |-> <<"w">>, Type |-> <<"A">>,
                         Address |-> <<"1", "9", "2", ".", "0", ".", "2", ".", "1">>, TTL |-> <<"1", "8", "0", "0">>, MXPref |-> <<"1", "0">>],
                        [HostId |-> <<"2">>, Name |-> <<"@">>, Type |-> <<"M", "X">>,
                         Address |-> <<"m", "a", "i", "l", ".", "e", "x", ".", "c", "o", "m", ".">>, TTL |-> <<"3", "0", "0">>, MXPref |-> <<"2", "0">>],
                        [HostId |-> <<"3">>, Name |-> <<"t">>, Type |-> <<"T", "X", "T">>,
                         Address |-> <<"v">>, TTL |-> <<"6", "0">>, MXPref |-> <<"1", "0">>]>>}}
    /\ ncNextHostId = 4
    /\ tasks = [t \in {1} |-> IdleTask]
    /\ lastRequest = NoRequest
    /\ ncCalls = 0
    /\ ncCreated = {}
    /\ ncDeleted = {}
    /\ ncAllOk = TRUE
    /\ LabelIdle
    /\ NameIdle
    /\ TypesIdle
    /\ HetznerIdle
    /\ CloudflareIdle
    /\ NamecraneIdle

NextNamecheapCaller ==
    \/ \E zone_id \in {<<"e", "x", ".", "c", "o", "m">>, <<"e", "x", ".", "c", "o", ".", "u", "k">>, <<"c", "o", "m">>}, fault \in NcFaults :
            NamecheapGetZone(1, 1, zone_id, fault)
    \/ \E z \in 1..Len(zones), fault \in NcFaults : NamecheapListRecords(1, z, fault)
    \/ \E z \in 1..Len(zones), record_id \in NcRecordIds, fault \in NcFaults :
            NamecheapGetRecord(1, z, record_id, fault)
    \/ \E z \in 1..Len(zones), args \in
             {[host |-> <<"w">>, data |-> RD_A(<<192, 0, 2, 7>>), ttl |-> 30],
              [host |-> <<"@">>, data |-> RD_MX(5, <<"M", ".", "e", "x", ".", "c", "o", "m", ".">>), ttl |-> 70000],
              [host |-> <<"t">>, data |-> RD_TXT(<<"v">>), ttl |-> 300]},
         fault \in NcFaults :
            NamecheapCreateFetch(1, z, args, fault)
    \/ \E fault \in NcFaults : NamecheapCreateSave(1, fault)
    \/ \E fault \in NcFaults : NamecheapCreateRefetch(1, fault)
    \/ \E z \in 1..Len(zones), record_id \in NcRecordIds, fault \in NcFaults :
            NamecheapDeleteFetch(1, z, record_id, fault)
    \/ \E fault \in NcFaults : NamecheapDeleteSave(1, fault)

SpecNamecheapCaller == InitNamecheapCaller /\ [][NextNamecheapCaller]_vars

(***************************************************************************)
(* Specifications of the sequential callers of Hetzner and Cloudflare      *)
(***************************************************************************)
InitHetzner ==
    /\ hzRRSets = <<>>
    /\ hzZone = NoneValue
    /\ hzOut = HzOut("none", <<>>, 0, NoneValue)
    /\ hzCreated = NoneValue
    /\ hzCalls = 0
    /\ hzList = NoListing
    /\ LabelIdle
    /\ NameIdle
    /\ TypesIdle
    /\ NamecheapIdle
    /\ CloudflareIdle
    /\ NamecraneIdle

NextHetzner ==
    \/ \E zone_id \in {<<"e", "x", ".", "c", "o", "m">>, <<"1", "2", "3">>, <<"n", "o", ".", "c", "o", "m">>}, fault \in HzFaults : HetznerGetZone(zone_id, fault)
    \/ \E fault \in HzFaults : HetznerListRecords(fault)
    \/ \E record_id \in HzRecordIds, fault \in HzFaults :
            HetznerGetRecord(record_id, fault)
    \/ \E args \in
             {[host |-> <<"w">>, data |-> RD_TXT(<<"v">>), ttl |-> 3600],
              [host |-> <<"w">>, data |-> RD_TXT(<<"\"", "a", "/", "b", "\"">>), ttl |-> 3600],
              [host |-> <<"w">>, data |-> RD_A(<<192, 0, 2, 7>>), ttl |-> 300],
              [host |-> <<"w">>, data |-> RD_Other(<<"Z", "Z">>, <<"v">>), ttl |-> 300]},
         fault \in HzFaults :
            HetznerCreateRecord(args, fault)
    \/ \E record_id \in HzRecordIds, fault \in HzFaults :
            HetznerDeleteRecord(record_id, fault)

SpecHetzner == InitHetzner /\ [][NextHetzner]_vars

InitCloudflare ==
    /\ cfRecords \in
          {<<>>,
           <<DnsRecord(<<"r", "1">>, <<"a", ".", "e", "x", ".", "c", "o", "m">>, <<"A">>, <<"1", "9", "2", ".", "0", ".", "2", ".", "1">>, 300, NoneValue, NoneValue)>>,
           <<DnsRecord(<<"r", "1">>, <<"a", ".", "e", "x", ".", "c", "o", "m">>, <<"A">>, <<"1", "9", "2", ".", "0", ".", "2", ".", "1">>, 300, NoneValue, NoneValue),
             DnsRecord(<<"r", "2">>, <<"e", "x", ".", "c", "o", "m">>, <<"C", "A", "A">>, <<"0">>, 300, NoneValue, NoneValue)>>}
    /\ cfNextId = 3
    /\ cfOut = CfOut("none", <<>>, NoneValue, {})
    /\ cfCalls = 0
    /\ LabelIdle
    /\ NameIdle
    /\ TypesIdle
    /\ NamecheapIdle
    /\ HetznerIdle
    /\ NamecraneIdle

NextCloudflare ==
    \/ \E fault \in CfFaults : CloudflareListRecords(fault)
    \/ \E record_id \in CfRecordIds, fault \in CfFaults :
            CloudflareGetRecord(record_id, fault)
    \/ \E args \in
             {[host |-> <<"w">>, data |-> RD_A(<<192, 0, 2, 7>>), ttl |-> 0],
              [host |-> <<"@">>, data |-> RD_MX(10, <<"m", ".", "e", "x", ".", "c", "o", "m">>), ttl |-> 300],
              [host |-> <<"w">>, data |-> RD_Other(<<"C", "A", "A">>, <<"0">>), ttl |-> 300]},
         fault \in CfFaults :
            CloudflareCreateRecord(args, fault)
    \/ \E record_id \in CfRecordIds, fault \in CfFaults :
            CloudflareDeleteRecord(record_id, fault)

SpecCloudflare == InitCloudflare /\ [][NextCloudflare]_vars

(***************************************************************************)
(* Specification of the caller of Namecrane                                *)
(***************************************************************************)
InitNamecrane ==
    /\ craneRecords = <<>>
    /\ craneOut = CraneOut("none", <<>>, 0, NoneValue)
    /\ craneCalls = 0
    /\ LabelIdle
    /\ NameIdle
    /\ TypesIdle
    /\ NamecheapIdle
    /\ HetznerIdle
    /\ CloudflareIdle

NextNamecrane ==
    \/ \E fault \in CraneFaults : NamecraneListRecords(fault)
    \/ \E record_id \in CraneRecordIds, fault \in CraneFaults :
            NamecraneGetRecord(record_id, fault)
    \/ \E args \in
             {[host |-> <<"w">>, data |-> RD_A(<<192, 0, 2, 7>>), ttl |-> 300],
              [host |-> <<"t">>, data |-> RD_TXT(<<"a", "a">>), ttl |-> 300],
              [host |-> <<"t">>, data |-> RD_TXT(<<"b", "B">>), ttl |-> 300],
              [host |-> <<"@">>, data |-> RD_MX(5, <<"m", ".", "e", "x", ".", "c", "o", "m", ".">>), ttl |-> 300]},
         fault \in CraneFaults :
            NamecraneCreateRecord(args, fault)
    \/ \E record_id \in CraneRecordIds, fault \in CraneFaults :
            NamecraneDeleteRecord(record_id, fault)

SpecNamecrane == InitNamecrane /\ [][NextNamecrane]_vars

(***************************************************************************)
(* Specification of HetznerProvider::list_zones                            *)
(***************************************************************************)
InitHetznerListZones ==
    /\ hzRRSets = <<>>
    /\ hzZone = NoneValue
    /\ hzOut = HzOut("none", <<>>, 0, NoneValue)
    /\ hzCreated = NoneValue
    /\ hzCalls = 0
    /\ hzList = NoListing
    /\ LabelIdle
    /\ NameIdle
    /\ TypesIdle
    /\ NamecheapIdle
    /\ CloudflareIdle
    /\ NamecraneIdle

NextHetznerListZones == \E resp \in HzZonesResponses : HetznerListZonesPage(resp)

SpecHetznerListZones == InitHetznerListZones /\ [][NextHetznerListZones]_vars

(***************************************************************************)
(* Specification of the Hetzner value formatting                           *)
(***************************************************************************)
InitHetznerValue ==
    /\ tyIn \in HetznerValueInputs
    /\ tyOut = <<>>
    /\ tyOp = "none"
    /\ LabelIdle
    /\ NameIdle
    /\ NamecheapIdle
    /\ HetznerIdle
    /\ CloudflareIdle
    /\ NamecraneIdle

NextHetznerValue == HetznerFormatValueForApi

SpecHetznerValue == InitHetznerValue /\ [][NextHetznerValue]_vars

(***************************************************************************)
(* Label properties                                                        *)
(***************************************************************************)
\* C8: Label::new(b) succeeds iff 1 <= len(b) <= 63, and on success
\* as_bytes() is b and len() is len(b).
C8_LabelNewIffInRange ==
    lblOp = "new" =>
        /\ (lblOut.tag = "Some") <=> (1 <= Len(lblInput) /\ Len(lblInput) <= 63)
        /\ lblOut.tag = "Some" =>
            /\ Label_as_bytes(lblOut) = lblInput
            /\ Label_len(lblOut) = Len(lblInput)

C8_Witness ==
    /\ lblOp = "new"
    /\ Len(lblInput) = 63
    /\ lblOut.tag = "Some"
    /\ Label_as_bytes(lblOut) = lblInput

\* C9: every Label obtainable through the public API (new, from_str,
\* Default) has a length in 1..63, so is_empty() is false.
C9_LabelNeverEmpty ==
    lblOut.tag = "Some" =>
        /\ Label_len(lblOut) >= 1
        /\ Label_len(lblOut) <= 63
        /\ ~Label_is_empty(lblOut)

(***************************************************************************)
(* DomainName properties                                                   *)
(***************************************************************************)
\* The input is a dot-joined list of valid labels (1..63 bytes each) whose
\* wire form (length byte per label, plus terminator) fits 255 bytes.
RECURSIVE WireBudget(_)
WireBudget(parts) ==
    IF parts = <<>> THEN 1 ELSE 1 + Len(Head(parts)) + WireBudget(Tail(parts))

ValidDotted(str) ==
    \/ str = <<>>
    \/ LET parts == split(str, DOT)
       IN  /\ \A k \in DOMAIN parts : Len(parts[k]) >= 1 /\ Len(parts[k]) <= 63
           /\ WireBudget(parts) <= 255

\* C10: for every dotted string of valid labels under the 255-byte wire
\* budget, from_dotted succeeds and to_dotted of the result is the input.
C10_DottedRoundTrip ==
    /\ (dnOp = "from_dotted" /\ ValidDotted(dnInput)) => dnOut.tag = "Some"
    /\ (dnOp = "dotted" /\ ValidDotted(dnInput)) => dnDotted = dnInput

C10_Witness ==
    /\ dnOp = "dotted"
    /\ ValidDotted(dnInput)
    /\ Len(split(dnInput, DOT)) = 4
    /\ wire_len(dnOut) = 255
    /\ dnDotted = dnInput

(***************************************************************************)
(* Properties of the concurrent callers                                    *)
(***************************************************************************)
NcQuiescent == \A t \in DOMAIN tasks : tasks[t].pc \in {"idle", "done"}

\* C1: the Namecheap adapter serializes concurrent record mutations of a
\* zone: once concurrent create_record and delete_record calls have all
\* returned Ok, the record set is that of some sequential order of the
\* calls, so every record created and not deleted is stored and no record
\* deleted and not created again is stored.
C1_MutationsSerialized ==
    (NcQuiescent /\ ncAllOk) =>
        /\ \A c \in ncCreated \ ncDeleted : c \in NcBackendContents
        /\ \A c \in ncDeleted \ ncCreated : c \notin NcBackendContents

NamecheapOperations ==
    {"NamecheapProvider::get_zone", "NamecheapZone::list_records",
     "NamecheapZone::get_record", "NamecheapZone::create_record",
     "NamecheapZone::delete_record"}

\* C2: an adapter operation that received the vendor's authentication
\* failure code from the backend at any of its steps returns the
\* Unauthorized variant of its error enum; stated for the operations of
\* the Namecheap adapter.
C2_AuthFailureIsUnauthorized ==
    \A t \in DOMAIN tasks :
        (/\ tasks[t].pc = "done"
         /\ tasks[t].op \in NamecheapOperations
         /\ tasks[t].failure = "auth") =>
            (tasks[t].result.tag = "Err" /\ tasks[t].result.err = "Unauthorized")

\* The record types the Namecheap adapter supports.
NamecheapSupportedTypes ==
    {<<"A">>, <<"A", "A", "A", "A">>, <<"C", "N", "A", "M", "E">>, <<"M", "X">>, <<"N", "S">>, <<"T", "X", "T">>, <<"U", "R", "L">>, <<"U", "R", "L", "3", "0", "1">>, <<"A", "L", "I", "A", "S">>,
     <<"C", "A", "A">>, <<"F", "R", "A", "M", "E">>}

\* C3: a retrieval or deletion operation that received the vendor's
\* not-found code for the requested zone returns the NotFound variant of
\* its error enum; stated for the operations of the Namecheap adapter.
C3_NotFoundCodeIsNotFound ==
    \A t \in DOMAIN tasks :
        (/\ tasks[t].pc = "done"
         /\ tasks[t].op \in NamecheapOperations \ {"NamecheapZone::create_record"}
         /\ tasks[t].failure = "not_found") =>
            (tasks[t].result.tag = "Err" /\ tasks[t].result.err = "NotFound")

\* C6: create_record called with a RecordData whose type the adapter does
\* not support sends no request to the backend, so the call is never
\* suspended on one, and returns CreateRecordError::UnsupportedType; stated
\* for the Namecheap adapter.
C6_UnsupportedTypeWithoutRequest ==
    \A t \in DOMAIN tasks :
        (/\ tasks[t].op = "NamecheapZone::create_record"
         /\ get_type(tasks[t].data) \notin NamecheapSupportedTypes) =>
            /\ tasks[t].pc = "done"
            /\ tasks[t].result.tag = "Err"
            /\ tasks[t].result.err = "UnsupportedType"
            /\ lastRequest.task # t

\* Every provider of an adapter, cloned or not, and every zone issued by
\* one reaches the same transport client with the same configuration.
OneSharedTransport ==
    /\ \A p, q \in 1..Len(providers) :
          providers[p].adapter = providers[q].adapter =>
              apiClients[providers[p].api_client] = apiClients[providers[q].api_client]
    /\ \A z \in 1..Len(zones) :
          \E p \in 1..Len(providers) :
              /\ providers[p].adapter = zones[z].adapter
              /\ apiClients[zones[z].api_client] = apiClients[providers[p].api_client]

\* The request on the wire is the one the issuing call builds from its own
\* instance and its own locals.
RequestOfIssuer ==
    lastRequest.task # 0 =>
        LET inst == lastRequest.inst
            client == apiClients[inst.api_client]
            req == lastRequest.req
            task == tasks[lastRequest.task]
        IN  /\ req.http_client = client.http_client
            /\ inst.adapter = "dnspod" => req.login_token = client.config.login_token
            /\ inst.adapter = "namecheap" =>
                  /\ req.ApiUser = client.config.api_user
                  /\ req.ApiKey = client.config.api_key
                  /\ req.ClientIp = client.config.client_ip
                  /\ req.SLD = inst.sld
                  /\ req.TLD = inst.tld
                  /\ req.Command = "namecheap.domains.dns.setHosts" =>
                        /\ inst = zones[task.inst]
                        /\ (task.pc = "saved" \/ task.result.tag = "Ok") =>
                              req.hosts = set_hosts_params(task.records)

\* C7: tasks may call the same Provider or Zone instance, or clones of it,
\* concurrently: no step of any call changes an existing instance or the
\* client behind its handle, all instances of an adapter reach one shared
\* transport client, and each request is the one its own call builds from
\* its own instance.
C7_InstancesImmutable ==
    [][/\ \A h \in 1..Len(apiClients) : apiClients'[h] = apiClients[h]
       /\ \A p \in 1..Len(providers) : providers'[p] = providers[p]
       /\ \A z \in 1..Len(zones) : zones'[z] = zones[z]
       /\ OneSharedTransport'
       /\ RequestOfIssuer']_vars

\* Two calls are suspended on the same zone instance and the request on
\* the wire is the setHosts of one of them.
C7_Witness ==
    \E t1, t2 \in DOMAIN tasks :
        /\ t1 # t2
        /\ tasks[t1].pc = "saved"
        /\ tasks[t2].pc = "fetched"
        /\ tasks[t1].inst = tasks[t2].inst
        /\ lastRequest.task = t1
        /\ lastRequest.req.Command = "namecheap.domains.dns.setHosts"
        /\ Len(lastRequest.req.hosts) > 0

(***************************************************************************)
(* Properties of the Hetzner caller                                        *)
(***************************************************************************)
\* The values the Hetzner service stores, one element per record.
HzStored(rrsets) ==
    UNION {{[name |-> rrsets[i].name, typ |-> rrsets[i].typ,
             value |-> rrsets[i].records[j]] : j \in 1..Len(rrsets[i].records)} :
           i \in 1..Len(rrsets)}

\* C4: the id of the Record a successful create_record returned is
\* sufficient afterwards: with no mutation in between and a backend that
\* answers the request, get_record(id) returns a record with the data that
\* was passed to create_record, list_records contains a record with that
\* id, and delete_record(id) removes exactly one stored record, the one of
\* the created host and type; stated for the Hetzner adapter.
C4_CreatedIdSufficient ==
    [][(hzCreated.tag = "Some" /\ hzOut'.status \in {200, 201}) =>
          /\ (/\ hzOut'.op = "HetznerZone::get_record"
              /\ hzOut'.record_id = hzCreated.v.id) =>
                 /\ hzOut'.result.tag = "Ok"
                 /\ hzOut'.result.v.data = hzCreated.v.data
          /\ hzOut'.op = "HetznerZone::list_records" =>
                 /\ hzOut'.result.tag = "Ok"
                 /\ \E i \in 1..Len(hzOut'.result.v) :
                        hzOut'.result.v[i].id = hzCreated.v.id
          /\ (/\ hzOut'.op = "HetznerZone::delete_record"
              /\ hzOut'.record_id = hzCreated.v.id) =>
                 /\ hzOut'.result.tag = "Ok"
                 /\ HzStored(hzRRSets') \subseteq HzStored(hzRRSets)
                 /\ \E gone \in HzStored(hzRRSets) :
                        /\ HzStored(hzRRSets) \ HzStored(hzRRSets') = {gone}
                        /\ gone.name = hzCreated.v.host
                        /\ gone.typ = get_type(hzCreated.v.data)]_vars

(***************************************************************************)
(* Properties of the Cloudflare caller                                     *)
(***************************************************************************)
\* C5: when a record of the backend's answer does not convert into a
\* Record, list_records and get_record return an error that carries the
\* type string of an unconvertible record and a reason; the record is not
\* silently left out of an Ok result.  Stated for the Cloudflare adapter.
C5_ConversionFailureReported ==
    (/\ cfOut.op \in {"CloudflareZone::list_records", "CloudflareZone::get_record"}
     /\ cfOut.unconvertible # {}) =>
        /\ cfOut.result.tag = "Err"
        /\ cfOut.result.err = "Custom"
        /\ Len(cfOut.result.custom.error.detail) = 2
        /\ cfOut.result.custom.error.detail[1] \in cfOut.unconvertible

\* C25: when the backend's items do not change during the call, list_zones
\* and list_records return exactly one entry per backend zone or record
\* value, in backend order, across all pages.  Stated for list_records of
\* the Cloudflare adapter, whose call is one step of the model: the ids of
\* an Ok result are the ids of the records of the service, in their order.
C25_ListReturnsEveryBackendRecord ==
    (/\ cfOut.op = "CloudflareZone::list_records"
     /\ cfOut.result.tag = "Ok") =>
        [i \in 1..Len(cfOut.result.v) |-> cfOut.result.v[i].id]
            = [i \in 1..Len(cfRecords) |-> cfRecords[i].id]

(***************************************************************************)
(* Ttl properties                                                          *)
(***************************************************************************)
\* v > 2_147_483_647: the top bit of the u32 is set.
AboveMaxTtl(v) == v.hi >= 32768

\* The number a u32 below 2^31 stands for.
Seconds(v) == v.hi * 65536 + v.lo

\* C15: for every u32 v, Ttl::new(v) and Ttl::from(v) return a Ttl (there is
\* no failure outcome) whose as_secs() is min(v, 2_147_483_647).
C15_TtlNewClamps ==
    tyOp \in {"Ttl::new", "Ttl::from"} =>
        /\ ~AboveMaxTtl(as_secs(tyOut))
        /\ Seconds(as_secs(tyOut)) =
              IF AboveMaxTtl(tyIn) THEN 2147483647 ELSE Seconds(tyIn)

C15_Witness ==
    /\ tyOp = "Ttl::new"
    /\ tyIn = u32(32768, 0)
    /\ Seconds(as_secs(tyOut)) = 2147483647

\* C16: for every u32 v, Ttl::try_new(v) is None when v > 2_147_483_647
\* and otherwise Some of a Ttl whose as_secs() is v itself.
C16_TtlTryNewStrict ==
    tyOp = "Ttl::try_new" =>
        IF AboveMaxTtl(tyIn) THEN tyOut = NoneValue
        ELSE /\ tyOut.tag = "Some"
             /\ as_secs(tyOut.v) = tyIn

C16_Witness ==
    /\ tyOp = "Ttl::try_new"
    /\ tyIn = u32(32768, 0)
    /\ tyOut = NoneValue

(***************************************************************************)
(* DomainName wire form and trailing dots                                  *)
(***************************************************************************)
RECURSIVE LabelPairsThenZero(_)
\* bytes is a run of (length byte in 1..63, that many bytes) pairs followed
\* by one zero byte and nothing else.
LabelPairsThenZero(bytes) ==
    IF bytes = <<>> THEN FALSE
    ELSE IF bytes[1] = 0 THEN Len(bytes) = 1
    ELSE /\ bytes[1] >= 1
         /\ bytes[1] <= 63
         /\ Len(bytes) >= bytes[1] + 2
         /\ LabelPairsThenZero(SubSeq(bytes, bytes[1] + 2, Len(bytes)))

\* C11: the wire bytes of every constructed DomainName are length-prefixed
\* labels (length byte in 1..63) followed by a single zero byte; the last
\* byte is 0, the length is in 1..255, and the root is the one byte 0.
C11_WireFormWellFormed ==
    dnOut.tag = "Some" =>
        LET bytes == as_wire_bytes(dnOut)
        IN  /\ wire_len(dnOut) >= 1
            /\ wire_len(dnOut) <= 255
            /\ bytes[Len(bytes)] = 0
            /\ LabelPairsThenZero(bytes)
            /\ (dnOp = "default" \/ dnInput = <<>>) => bytes = <<0>>

C11_Witness ==
    /\ dnOp = "from_dotted"
    /\ dnOut.tag = "Some"
    /\ as_wire_bytes(dnOut) = <<1, 97, 2, 98, 98, 0>>

\* The components of a dotted string as the specification cuts them: at
\* most one trailing '.' is removed, the rest is split at every '.'.
Components(str) ==
    split(IF str # <<>> /\ str[Len(str)] = DOT THEN SubSeq(str, 1, Len(str) - 1) ELSE str,
          DOT)

\* C12: from_dotted of a non-empty input fails iff a component is empty or
\* longer than 63 bytes, or the components with their length bytes and the
\* terminator exceed 255 wire bytes.
C12_FailsIffOutOfBounds ==
    (dnOp = "from_dotted" /\ dnInput # <<>>) =>
        LET parts == Components(dnInput)
        IN  (dnOut = NoName) <=>
                \/ \E k \in DOMAIN parts : Len(parts[k]) = 0 \/ Len(parts[k]) > 63
                \/ WireBudget(parts) > 255

\* C13: from_dotted strips at most one trailing '.': with one trailing dot
\* the result is that of the input without it, and an input ending in two
\* or more dots is rejected.
C13_AtMostOneTrailingDot ==
    (dnOp = "from_dotted" /\ dnInput # <<>> /\ dnInput[Len(dnInput)] = DOT) =>
        LET rest == SubSeq(dnInput, 1, Len(dnInput) - 1)
        IN  IF rest # <<>> /\ rest[Len(rest)] = DOT
            THEN dnOut = NoName
            ELSE dnOut = from_dotted(rest)

\* C14: for every DomainName from from_dotted or Default, is_root() holds
\* iff the wire length is 1, and the empty string gives the root.
C14_RootIffWireLenOne ==
    /\ dnOut.tag = "Some" => (is_root(dnOut) <=> wire_len(dnOut) = 1)
    /\ (dnOp = "from_dotted" /\ dnInput = <<>>) =>
            (dnOut.tag = "Some" /\ is_root(dnOut))
    /\ dnOp = "default" => is_root(dnOut)

C14_Witness ==
    /\ dnOp = "from_dotted"
    /\ dnInput = <<>>
    /\ is_root(dnOut)
    /\ wire_len(dnOut) = 1

(***************************************************************************)
(* RecordType and RecordClass properties                                   *)
(***************************************************************************)
\* C17: for every RecordType member t, from_u16(t.as_u16()) = Some(t) and
\* from_str(t.as_str()) = Some(t); and a string that parses to a member
\* parses to the same member again after being rendered by as_str.
C17_RecordTypeRoundTrip ==
    /\ (tyIn.kind = "RecordType" /\ tyOp = "RecordType::from_u16") =>
            Last(tyOut) = SomeValue(tyIn.member)
    /\ (tyIn.kind = "RecordType" /\ tyOp = "RecordType::from_str") =>
            Last(tyOut) = SomeValue(tyIn.member)
    /\ (tyIn.kind = "str" /\ tyOp = "RecordType::from_str" /\ Len(tyOut) = 3) =>
            tyOut[3] = tyOut[1]

C17_Witness ==
    /\ tyIn = [kind |-> "str", s |-> <<"c", "N", "a", "m", "e">>]
    /\ tyOp = "RecordType::from_str"
    /\ tyOut = <<SomeValue("CNAME"), <<"C", "N", "A", "M", "E">>, SomeValue("CNAME")>>

\* C18: for every RecordClass member c, from_u16(c.as_u16()) = Some(c),
\* and the type has a name parser that is case-insensitive and maps the
\* name to_string renders for c back to Some(c).
C18_RecordClassRoundTrip ==
    /\ (tyIn.kind = "RecordClass" /\ tyOp = "RecordClass::from_u16") =>
            Last(tyOut) = SomeValue(tyIn.member)
    /\ (tyIn.kind = "RecordClass" /\ tyOp = "RecordClass::to_string") =>
            \E from_name \in RecordClass_name_parsers :
                /\ from_name[Last(tyOut)] = SomeValue(tyIn.member)
                /\ from_name[to_lowercase(Last(tyOut))] = SomeValue(tyIn.member)

(***************************************************************************)
(* RecordData properties                                                   *)
(***************************************************************************)
\* The RecordData value get_type was called on.
TypedData == IF tyIn.kind = "data" THEN tyIn.data ELSE tyOut[1]

\* The type string of each dedicated variant.
VariantMnemonic ==
    [A |-> <<"A">>, AAAA |-> <<"A", "A", "A", "A">>, CNAME |-> <<"C", "N", "A", "M", "E">>, MX |-> <<"M", "X">>, NS |-> <<"N", "S">>,
     TXT |-> <<"T", "X", "T">>, SRV |-> <<"S", "R", "V">>]

\* C19: get_type() is determined by the variant alone ("A", "AAAA",
\* "CNAME", "MX", "NS", "TXT", "SRV", the stored type string for Other), and
\* for every (t, v) the value from_raw(t, v) has get_type() equal to t.
C19_TypeDerivableFromVariant ==
    tyOp = "RecordData::get_type" =>
        /\ TypedData.variant \in {"A", "AAAA", "CNAME", "MX", "NS", "TXT", "SRV", "Other"}
        /\ Last(tyOut) =
              IF TypedData.variant = "Other" THEN TypedData.typ
              ELSE VariantMnemonic[TypedData.variant]
        /\ tyIn.kind = "raw" => Last(tyOut) = tyIn.typ

C19_Witness ==
    /\ tyOp = "RecordData::get_type"
    /\ tyIn.kind = "raw"
    /\ tyIn.typ = <<"a">>
    /\ tyIn.value = <<"1", "9", "2", ".", "0", ".", "2", ".", "1">>
    /\ tyOut = <<RD_Other(<<"a">>, <<"1", "9", "2", ".", "0", ".", "2", ".", "1">>), <<"a">>>>

\* The number of whitespace-delimited words of a string.
Words(str) ==
    Cardinality({i \in 1..Len(str) : str[i] # " " /\ (i = 1 \/ str[i - 1] = " ")})

\* Values that are malformed for a type whose value is parsed: by their
\* shape (the wrong number of fields or separators, a character no field
\* may hold), or by a field out of range in an otherwise well-shaped value.
Malformed(t, v) ==
    LET count(c) == Cardinality({i \in 1..Len(v) : v[i] = c})
        only(chars) == \A i \in 1..Len(v) : v[i] \in Range(chars)
    IN  \/ t = <<"A">> /\ (count(".") # 3 \/ ~only(<<"0", "1", "2", "3", "4", "5", "6", "7", "8", "9", ".">>))
        \/ t = <<"A">> /\ v \in {<<"2", "5", "6", ".", "0", ".", "0", ".", "1">>, <<"0", "1", ".", "2", ".", "3", ".", "4">>}
        \/ t = <<"A", "A", "A", "A">> /\ (count(":") < 2 \/ count(":") > 7
                             \/ ~only(<<"0", "1", "2", "3", "4", "5", "6", "7", "8", "9", "a", "b", "c", "d", "e", "f", "A", "B", "C", "D", "E", "F", ":", ".">>))
        \/ t = <<"A", "A", "A", "A">> /\ v \in {<<"1", ":", "2", ":", "3", ":", "4", ":", "5", ":", "6", ":", "7">>, <<"1", "2", "3", "4", "5", ":", ":">>, <<":", ":", ":">>, <<"1", ":", ":", "2", ":", ":", "3">>,
                                 <<"1", ":", "2", ":", "3", ":", "4", ":", "5", ":", "6", ":", "7", ":", ":", "8">>}
        \/ t = <<"M", "X">> /\ Words(v) # 2
        \/ t = <<"M", "X">> /\ v \in {<<"7", "0", "0", "0", "0", " ", "m", "a", "i", "l", ".", "e", "x", "a", "m", "p", "l", "e", ".", "c", "o", "m">>, <<"x", " ", "m", "a", "i", "l", ".", "e", "x", "a", "m", "p", "l", "e", ".", "c", "o", "m">>}
        \/ t = <<"S", "R", "V">> /\ Words(v) # 4
        \/ t = <<"S", "R", "V">> /\ v \in {<<"1", "0", " ", "x", " ", "5", "0", "6", "0", " ", "s", "i", "p", ".", "e", "x", "a", "m", "p", "l", "e", ".", "c", "o", "m">>, <<"1", "0", " ", "5", " ", "6", "5", "5", "3", "6", " ", "s", "i", "p", ".", "e", "x", "a", "m", "p", "l", "e", ".", "c", "o", "m">>}

\* C20: from_raw returns a RecordData for every pair of strings: the
\* dedicated variant for a known type whose value parses under the type's
\* rule, and Other{type, value} with both strings unchanged for an unknown
\* type and for a malformed value of A, AAAA, MX or SRV.
C20_FromRawNeverFails ==
    tyOp = "RecordData::from_raw" =>
        LET t == tyIn.typ
            v == tyIn.value
            d == tyOut[1]
        IN  /\ d.variant \in {"A", "AAAA", "CNAME", "MX", "NS", "TXT", "SRV", "Other"}
            /\ d.variant = "Other" => (d.typ = t /\ d.value = v)
            /\ d.variant # "Other" => VariantMnemonic[d.variant] = t
            /\ t \notin Range(VariantMnemonic) => d.variant = "Other"
            /\ t \in {<<"C", "N", "A", "M", "E">>, <<"N", "S">>, <<"T", "X", "T">>} => (d.variant # "Other" /\ d.value = v)
            /\ Malformed(t, v) => d.variant = "Other"
            /\ d.variant = "A" => ipv4_to_string(d.ip) = v
            /\ d.variant = "AAAA" =>
                    (Len(d.ip) = 8 /\ \A i \in 1..8 : d.ip[i] \in 0..65535)
            /\ d.variant = "MX" =>
                    (Words(v) = 2 /\ d.priority \in 0..65535 /\ d.mail_server # <<>>)
            /\ d.variant = "SRV" =>
                    (/\ Words(v) = 4
                     /\ \A n \in {d.priority, d.weight, d.port} : n \in 0..65535
                     /\ d.target # <<>>)
            /\ (t = <<"A">> /\ v = <<"1", "9", "2", ".", "0", ".", "2", ".", "1">>) => d = RD_A(<<192, 0, 2, 1>>)
            /\ (t = <<"M", "X">> /\ v = <<"1", "0", " ", "m", "a", "i", "l", ".", "e", "x", "a", "m", "p", "l", "e", ".", "c", "o", "m">>) =>
                    d = RD_MX(10, <<"m", "a", "i", "l", ".", "e", "x", "a", "m", "p", "l", "e", ".", "c", "o", "m">>)
            /\ (t = <<"S", "R", "V">> /\ v = <<"1", "0", " ", "5", " ", "5", "0", "6", "0", " ", "s", "i", "p", ".", "e", "x", "a", "m", "p", "l", "e", ".", "c", "o", "m">>) =>
                    d = RD_SRV(10, 5, 5060, <<"s", "i", "p", ".", "e", "x", "a", "m", "p", "l", "e", ".", "c", "o", "m">>)
            /\ (t = <<"A", "A", "A", "A">> /\ v = <<"2", "0", "0", "1", ":", "d", "b", "8", ":", ":", "1">>) =>
                    d = RD_AAAA(<<8193, 3512, 0, 0, 0, 0, 0, 1>>)

C20_Witness ==
    /\ tyOp = "RecordData::from_raw"
    /\ tyIn.typ = <<"M", "X">>
    /\ tyIn.value = <<"m", "a", "i", "l", ".", "e", "x", "a", "m", "p", "l", "e", ".", "c", "o", "m">>
    /\ tyOut = <<RD_Other(<<"M", "X">>, <<"m", "a", "i", "l", ".", "e", "x", "a", "m", "p", "l", "e", ".", "c", "o", "m">>)>>

\* C21: for every MX payload with priority p and mail server s, get_value
\* renders the decimal digits of p, one space and s, and get_api_value
\* renders s alone; for from_raw("MX", "10 mail.example.com") these are
\* "10 mail.example.com" and "mail.example.com".
C21_MxApiValueIsServerOnly ==
    /\ (tyOp = "RecordData::get_value" /\ TypedData.variant = "MX") =>
          /\ Last(tyOut) = to_string(TypedData.priority) \o <<" ">> \o TypedData.mail_server
          /\ (tyIn.kind = "raw" /\ tyIn.typ = <<"M", "X">> /\ tyIn.value = <<"1", "0", " ", "m", "a", "i", "l", ".", "e", "x", "a", "m", "p", "l", "e", ".", "c", "o", "m">>)
                => Last(tyOut) = <<"1", "0", " ", "m", "a", "i", "l", ".", "e", "x", "a", "m", "p", "l", "e", ".", "c", "o", "m">>
    /\ (tyOp = "RecordData::get_api_value" /\ TypedData.variant = "MX") =>
          /\ Last(tyOut) = TypedData.mail_server
          /\ (tyIn.kind = "raw" /\ tyIn.typ = <<"M", "X">> /\ tyIn.value = <<"1", "0", " ", "m", "a", "i", "l", ".", "e", "x", "a", "m", "p", "l", "e", ".", "c", "o", "m">>)
                => Last(tyOut) = <<"m", "a", "i", "l", ".", "e", "x", "a", "m", "p", "l", "e", ".", "c", "o", "m">>

C21_Witness ==
    /\ tyOp = "RecordData::get_api_value"
    /\ tyIn.kind = "raw"
    /\ tyIn.typ = <<"M", "X">>
    /\ tyIn.value = <<"1", "0", " ", "m", "a", "i", "l", ".", "e", "x", "a", "m", "p", "l", "e", ".", "c", "o", "m">>
    /\ tyOut = <<RD_MX(10, <<"m", "a", "i", "l", ".", "e", "x", "a", "m", "p", "l", "e", ".", "c", "o", "m">>), <<"m", "a", "i", "l", ".", "e", "x", "a", "m", "p", "l", "e", ".", "c", "o", "m">>>>

(***************************************************************************)
(* Properties of the single Namecheap caller                               *)
(***************************************************************************)
\* The name, type, address, TTL and MX preference the service holds for
\* each host of a list, in order.
HostFields(hosts) ==
    [i \in 1..Len(hosts) |->
        <<hosts[i].Name, hosts[i].Type, hosts[i].Address, hosts[i].TTL, hosts[i].MXPref>>]

DomainOf(zone) == <<zone.sld, zone.tld>>

\* C22: with a single caller, the setHosts of a create_record that the
\* service accepts leaves every host that the zone held before in the zone,
\* in place and with the same name, type, address, TTL and MX preference,
\* and adds exactly one host, the one with the name and type asked for; the
\* rest of the call changes no host.
C22_CreateKeepsExistingRecords ==
    [][\A t \in DOMAIN tasks :
          /\ (/\ tasks[t].op = "NamecheapZone::create_record"
              /\ tasks[t].pc = "fetched"
              /\ tasks'[t].pc = "saved") =>
                LET d == DomainOf(zones[tasks[t].inst])
                IN  /\ Len(ncHosts'[d]) = Len(ncHosts[d]) + 1
                    /\ SubSeq(HostFields(ncHosts'[d]), 1, Len(ncHosts[d]))
                          = HostFields(ncHosts[d])
                    /\ ncHosts'[d][Len(ncHosts'[d])].Name = tasks[t].host
                    /\ ncHosts'[d][Len(ncHosts'[d])].Type = get_type(tasks[t].data)
                    /\ \A e \in RegisteredDomains \ {d} : ncHosts'[e] = ncHosts[e]
          /\ (/\ tasks[t].op = "NamecheapZone::create_record"
              /\ tasks[t].pc \in {"saved", "idle", "done"}
              /\ tasks'[t].op = "NamecheapZone::create_record") => ncHosts' = ncHosts
    ]_vars

C22_Witness ==
    /\ tasks[1].op = "NamecheapZone::create_record"
    /\ tasks[1].pc = "done"
    /\ tasks[1].result.tag = "Ok"
    /\ tasks[1].data = RD_MX(5, <<"M", ".", "e", "x", ".", "c", "o", "m", ".">>)
    /\ tasks[1].sent = <<"namecheap.domains.dns.getHosts",
                         "namecheap.domains.dns.setHosts",
                         "namecheap.domains.dns.getHosts">>
    /\ HostFields(ncHosts[<<<<"e", "x">>, <<"c", "o", "m">>>>]) =
          <<<<<<"w">>, <<"A">>, <<"1", "9", "2", ".", "0", ".", "2", ".", "1">>, <<"1", "8", "0", "0">>, <<"1", "0">>>>,
            <<<<"@">>, <<"M", "X">>, <<"m", "a", "i", "l", ".", "e", "x", ".", "c", "o", "m", ".">>, <<"3", "0", "0">>, <<"2", "0">>>>,
            <<<<"t">>, <<"T", "X", "T">>, <<"v">>, <<"6", "0">>, <<"1", "0">>>>,
            <<<<"@">>, <<"M", "X">>, <<"M", ".", "e", "x", ".", "c", "o", "m", ".">>, <<"6", "0", "0", "0", "0">>, <<"5">>>>>>

\* C23: a delete_record(id) that returns Ok has sent exactly two requests,
\* one getHosts and then one setHosts; the hosts of that setHosts are the
\* fetched records whose host_id differs from id, in the fetched order, and
\* they become the hosts of the zone.
C23_DeleteSavesFetchedMinusId ==
    /\ [](\A t \in DOMAIN tasks :
            (/\ tasks[t].op = "NamecheapZone::delete_record"
             /\ tasks[t].pc = "done"
             /\ tasks[t].result.tag = "Ok") =>
                tasks[t].sent = <<"namecheap.domains.dns.getHosts",
                                  "namecheap.domains.dns.setHosts">>)
    /\ [][\A t \in DOMAIN tasks :
            (/\ tasks[t].op = "NamecheapZone::delete_record"
             /\ tasks[t].pc = "fetched"
             /\ tasks'[t].pc = "done"
             /\ tasks'[t].result.tag = "Ok") =>
                LET d == DomainOf(zones[tasks[t].inst])
                    kept == {i \in 1..Len(tasks[t].fetched) :
                                tasks[t].fetched[i].host_id # tasks[t].record_id}
                    nth(k) == CHOOSE i \in kept :
                                 Cardinality({j \in kept : j <= i}) = k
                    sent == lastRequest'.req.hosts
                IN  /\ lastRequest'.task = t
                    /\ lastRequest'.req.Command = "namecheap.domains.dns.setHosts"
                    /\ Len(sent) = Cardinality(kept)
                    /\ \A k \in 1..Len(sent) :
                          /\ sent[k].HostName = tasks[t].fetched[nth(k)].name
                          /\ sent[k].RecordType = tasks[t].fetched[nth(k)].record_type
                          /\ sent[k].Address = tasks[t].fetched[nth(k)].address
                          /\ sent[k].TTL = to_string(tasks[t].fetched[nth(k)].ttl)
                    /\ HostFields(ncHosts'[d]) =
                          HostFields(SelectSeq(ncHosts[d],
                                               LAMBDA h : h.HostId # tasks[t].record_id))
      ]_vars

C23_Witness ==
    /\ tasks[1].op = "NamecheapZone::delete_record"
    /\ tasks[1].pc = "done"
    /\ tasks[1].result.tag = "Ok"
    /\ tasks[1].record_id = <<"2">>
    /\ Len(tasks[1].fetched) = 3
    /\ HostFields(ncHosts[<<<<"e", "x">>, <<"c", "o", "m">>>>]) =
          <<<<<<"w">>, <<"A">>, <<"1", "9", "2", ".", "0", ".", "2", ".", "1">>, <<"1", "8", "0", "0">>, <<"1", "0">>>>,
            <<<<"t">>, <<"T", "X", "T">>, <<"v">>, <<"6", "0">>, <<"1", "0">>>>>>

\* C24: a delete_record whose getHosts succeeds and returns no host with
\* the given id returns NotFound after that one request, sends no setHosts
\* and leaves the hosts of every zone as they were.
C24_DeleteMissingIsNotFound ==
    /\ [](\A t \in DOMAIN tasks :
            (/\ tasks[t].op = "NamecheapZone::delete_record"
             /\ tasks[t].pc = "done"
             /\ tasks[t].failure = "none"
             /\ tasks[t].sent[1] = "namecheap.domains.dns.getHosts"
             /\ \A i \in 1..Len(tasks[t].fetched) :
                   tasks[t].fetched[i].host_id # tasks[t].record_id) =>
                /\ tasks[t].result.tag = "Err"
                /\ tasks[t].result.err = "NotFound"
                /\ tasks[t].sent = <<"namecheap.domains.dns.getHosts">>)
    /\ [][\A t \in DOMAIN tasks :
            (/\ ncCalls' # ncCalls
             /\ lastRequest'.task = t
             /\ tasks'[t].op = "NamecheapZone::delete_record"
             /\ tasks'[t].pc = "done"
             /\ tasks'[t].result.tag = "Err"
             /\ tasks'[t].result.err = "NotFound") =>
                /\ ncHosts' = ncHosts
                /\ lastRequest'.req.Command = "namecheap.domains.dns.getHosts"
      ]_vars

C24_Witness ==
    /\ tasks[1].op = "NamecheapZone::delete_record"
    /\ tasks[1].pc = "done"
    /\ tasks[1].record_id = <<"0">>
    /\ Len(tasks[1].fetched) = 3
    /\ tasks[1].result.tag = "Err"
    /\ tasks[1].result.err = "NotFound"
    /\ tasks[1].sent = <<"namecheap.domains.dns.getHosts">>
    /\ Len(ncHosts[<<<<"e", "x">>, <<"c", "o", "m">>>>]) = 3

C30_TxtValueIsQuoted ==
    (tyOp = "hetzner::format_value_for_api" /\ tyIn.data.variant = "TXT") =>
        LET val == tyIn.data.value
            formatted == tyOut[1]
        IN  /\ Len(formatted) >= 2
            /\ formatted[1] = "\""
            /\ formatted[Len(formatted)] = "\""
            /\ (val # <<>> /\ val[1] = "\"" /\ val[Len(val)] = "\"") => formatted = val

(***************************************************************************)
(* Properties of the Namecrane caller                                      *)
(***************************************************************************)
\* The id the adapter gives the i-th record of the service
CraneIdOf(records, i) ==
    synthesize_record_id(records[i].name, records[i].record_type, records[i].content)

\* C27: get_record and delete_record return NotFound whenever the given id
\* does not identify a record of the zone, ids that are malformed for the
\* id scheme "name:type:hash" included.  Here: whenever the service answers
\* the requests of a get_record or delete_record call and the id is the id
\* of none of its records, the result of the call is the NotFound variant.
C27_UnidentifiedIdIsNotFound ==
    [][(/\ craneCalls' # craneCalls
        /\ craneOut'.op \in {"NamecraneZone::get_record", "NamecraneZone::delete_record"}
        /\ craneOut'.fault = 0
        /\ \A i \in 1..Len(craneRecords) : CraneIdOf(craneRecords, i) # craneOut'.record_id)
       => (craneOut'.result.tag = "Err" /\ craneOut'.result.err = "NotFound")]_vars

\* C28: Namecrane record ids identify records uniquely within a zone.  Two
\* records of the zone with the same name and type and different content
\* have different ids, and a delete_record(id) that succeeds removes the one
\* record whose id is the given one and no other.
C28_IdsIdentifyOneRecord ==
    /\ [](\A i, j \in 1..Len(craneRecords) :
            (/\ craneRecords[i].name = craneRecords[j].name
             /\ craneRecords[i].record_type = craneRecords[j].record_type
             /\ craneRecords[i].content # craneRecords[j].content)
            => CraneIdOf(craneRecords, i) # CraneIdOf(craneRecords, j))
    /\ [][(/\ craneCalls' # craneCalls
           /\ craneOut'.op = "NamecraneZone::delete_record"
           /\ craneOut'.result.tag = "Ok")
          => \E k \in 1..Len(craneRecords) :
                /\ CraneIdOf(craneRecords, k) = craneOut'.record_id
                /\ \A i \in 1..Len(craneRecords) :
                      CraneIdOf(craneRecords, i) = craneOut'.record_id => i = k
                /\ craneRecords' = [i \in 1..(Len(craneRecords) - 1) |->
                                       IF i < k THEN craneRecords[i]
                                       ELSE craneRecords[i + 1]]]_vars

(***************************************************************************)
(* Termination of HetznerProvider::list_zones                              *)
(***************************************************************************)
\* C26: list_zones terminates after finitely many page requests for every
\* sequence of page responses: the loop always reaches its exit condition
\* or returns an error.  The exit condition is zones.len() == total, where
\* total is fixed by the first page and zones only grows; so for the loop to
\* end on the pages that follow, the zones collected while it is still
\* requesting pages must not have passed the total.
C26_ListZonesCanStillExit ==
    hzList.pc = "paging" => Len(hzList.zones) < hzList.total.v

====
